---- MODULE Spec2Model ----
(***************************************************************************)
(* Model of the multi-provider model-routing layer of InsightsLM           *)
(* (backend/services/llm_service.py): model discovery over four providers, *)
(* the discovery aggregator and the generation router.                     *)
(*                                                                         *)
(* Python strings are TLA+ strings; Python exceptions are records          *)
(* [kind |-> "raise", cls, msg]; a call that returns is                    *)
(* [kind |-> "return", value].  Every SDK call of a handler is recorded in *)
(* the handler's event list, so that "was the provider contacted" and      *)
(* "how often" are observable.                                             *)
(***************************************************************************)
EXTENDS Integers, Sequences, FiniteSets, TLC

VARIABLES api_keys, cached_model, collection, last, threads

vars == <<api_keys, cached_model, collection, last, threads>>

(***************************************************************************)
(* Bounds                                                                  *)
(***************************************************************************)
\* longest model listing a provider returns in one discovery call
MaxListing == 2

(***************************************************************************)
(* Python string operations, computed character by character               *)
(***************************************************************************)
UpperChars == "ABCDEFGHIJKLMNOPQRSTUVWXYZ"
LowerChars == "abcdefghijklmnopqrstuvwxyz"

CharAt(s, i) == SubSeq(s, i, i)

UpperSet == {CharAt(UpperChars, i) : i \in 1..26}
LowerSet == {CharAt(LowerChars, i) : i \in 1..26}

ToLower == [c \in UpperSet |->
              CharAt(LowerChars, CHOOSE i \in 1..26 : CharAt(UpperChars, i) = c)]
ToUpper == [c \in LowerSet |->
              CharAt(UpperChars, CHOOSE i \in 1..26 : CharAt(LowerChars, i) = c)]

IsAlphaChar(c) == c \in UpperSet \/ c \in LowerSet

LowerChar(c) == IF c \in UpperSet THEN ToLower[c] ELSE c

UpperChar(c) == IF c \in LowerSet THEN ToUpper[c] ELSE c

RECURSIVE Lower(_)
Lower(s) == IF s = "" THEN "" ELSE LowerChar(Head(s)) \o Lower(Tail(s))

RECURSIVE Upper(_)
Upper(s) == IF s = "" THEN "" ELSE UpperChar(Head(s)) \o Upper(Tail(s))

\* str.capitalize(): first character upper-cased, the rest lower-cased
Capitalize(s) == IF s = "" THEN "" ELSE UpperChar(Head(s)) \o Lower(Tail(s))

\* str.title(): a letter is upper-cased after a non-letter, lower-cased after a letter
RECURSIVE TitleFrom(_, _)
TitleFrom(s, prevAlpha) ==
    IF s = "" THEN ""
    ELSE LET c == Head(s) IN
         (IF prevAlpha THEN LowerChar(c) ELSE UpperChar(c))
            \o TitleFrom(Tail(s), IsAlphaChar(c))

Title(s) == TitleFrom(s, FALSE)

\* s.startswith(p)
StartsWith(s, p) == Len(s) >= Len(p) /\ SubSeq(s, 1, Len(p)) = p

\* sub in s
Contains(s, sub) ==
    \E i \in 1..(Len(s) - Len(sub) + 1) : SubSeq(s, i, i + Len(sub) - 1) = sub

\* s.replace(old, new) for a one-character old
RECURSIVE ReplaceChar(_, _, _)
ReplaceChar(s, old, new) ==
    IF s = "" THEN ""
    ELSE (IF Head(s) = old THEN new ELSE Head(s)) \o ReplaceChar(Tail(s), old, new)

\* s.replace(prefix, "") for the prefixes the code strips ("models/"): every
\* occurrence is removed, scanning left to right
RECURSIVE RemoveAll(_, _)
RemoveAll(s, sub) ==
    IF Len(s) < Len(sub) THEN s
    ELSE IF SubSeq(s, 1, Len(sub)) = sub
         THEN RemoveAll(SubSeq(s, Len(sub) + 1, Len(s)), sub)
         ELSE Head(s) \o RemoveAll(Tail(s), sub)

\* s.split(sep)[0] for a one-character sep
RECURSIVE SplitFirst(_, _)
SplitFirst(s, sep) ==
    IF s = "" \/ Head(s) = sep THEN "" ELSE Head(s) \o SplitFirst(Tail(s), sep)

(***************************************************************************)
(* Python call outcomes                                                    *)
(***************************************************************************)
Ret(v) == [kind |-> "return", value |-> v]
Raise(c, m) == [kind |-> "raise", cls |-> c, msg |-> m]

\* "except ValueError" catches ValueError; every class below is an Exception
IsValueError(e) == e.cls = "ValueError"

\* a function evaluated once over its whole domain
Tabulate(f) == f @@ << >>

PyNone == [tag |-> "None"]
PyDict(f) == [tag |-> "dict", items |-> f]

\* all sequences without repetition over the elements of S, up to length n
Listings(S, n) ==
    {l \in UNION {[1..k -> S] : k \in 0..n} :
        \A i, j \in DOMAIN l : i # j => l[i] # l[j]}

\* the elements of seq at the positions in I, in the order of seq
RECURSIVE Pick(_, _, _)
Pick(seq, I, i) ==
    IF i > Len(seq) THEN << >>
    ELSE (IF i \in I THEN << seq[i] >> ELSE << >>) \o Pick(seq, I, i + 1)

\* all subsequences of seq of length up to n
Sublistings(seq, n) ==
    {Pick(seq, I, 1) : I \in {J \in SUBSET (1..Len(seq)) : Cardinality(J) <= n}}

(***************************************************************************)
(* Model Registry                                                          *)
(***************************************************************************)
SUPPORTED_MODELS ==
    [k \in {"ollama_mistral", "ollama_llama3",
            "openai_gpt5", "openai_gpt5_mini", "openai_gpt5_nano",
            "openai_gpt4o", "openai_gpt4_turbo",
            "claude_3_5_sonnet", "claude_3_opus",
            "gemini_1_5_pro", "gemini_1_5_flash"} |->
       CASE k = "ollama_mistral"    -> "mistral"
         [] k = "ollama_llama3"     -> "llama3"
         [] k = "openai_gpt5"       -> "gpt-5"
         [] k = "openai_gpt5_mini"  -> "gpt-5-mini"
         [] k = "openai_gpt5_nano"  -> "gpt-5-nano"
         [] k = "openai_gpt4o"      -> "gpt-4o"
         [] k = "openai_gpt4_turbo" -> "gpt-4-turbo"
         [] k = "claude_3_5_sonnet" -> "claude-3-5-sonnet-20240620"
         [] k = "claude_3_opus"     -> "claude-3-opus-20240229"
         [] k = "gemini_1_5_pro"    -> "gemini-1.5-pro"
         [] k = "gemini_1_5_flash"  -> "gemini-1.5-flash"]

CloudProviders == {"openai", "anthropic", "google"}
Providers == {"ollama"} \cup CloudProviders

\* the order in which get_all_available_models queries the adapters
ProviderOrder == <<"ollama", "openai", "anthropic", "google">>

(***************************************************************************)
(* Credential store (config_service): api_keys holds one stored            *)
(* ciphertext per cloud provider, "" when unset.  The ciphertext of a      *)
(* plaintext p is "enc:" \o p; anything else does not decrypt.             *)
(***************************************************************************)
GoodKey == "sk-good"
BadKey == "sk-bad"
Plaintexts == {"", GoodKey, BadKey}
CorruptCiphertext == "AAAA"

encrypt_key(api_key) == IF api_key = "" THEN "" ELSE "enc:" \o api_key

decrypt_key(encrypted_key) ==
    IF encrypted_key = "" THEN ""
    ELSE IF StartsWith(encrypted_key, "enc:")
         THEN SubSeq(encrypted_key, 5, Len(encrypted_key))
         ELSE ""

\* the keys as they were loaded when the module was imported, before any
\* credential was stored
_get_fresh_api_keys_stale(stored) == [p \in CloudProviders |-> ""]

_get_fresh_api_keys(stored) == [p \in CloudProviders |-> decrypt_key(stored[p])]

(***************************************************************************)
(* What the provider SDKs can answer.  A response is drawn when the SDK is *)
(* called; NotCalled stands for "the handler never made the call".         *)
(***************************************************************************)
NotCalled ==
    [kind |-> "not_called", cls |-> "", msg |-> "", data |-> << >>, has_models_attr |-> FALSE]
SdkOk(d) == [kind |-> "ok", data |-> d]

\* ollama.list(): installed models (tagged names), a response object
\* without a models attribute, or an exception
OllamaCatalog ==
    << [has_model |-> TRUE, model |-> "llama3:latest"],
       [has_model |-> TRUE, model |-> "llama3:8b"],
       [has_model |-> TRUE, model |-> "mistral:7b"],
       [has_model |-> TRUE, model |-> ":latest"],
       [has_model |-> FALSE, model |-> ""] >>

OllamaConnectErrors ==
    {Raise("ConnectionError", "Failed to connect to Ollama"),
     Raise("ConnectError", "[Errno 111] Connection refused")}

OllamaListErrors ==
    OllamaConnectErrors \cup
    {Raise("ResponseError", "internal server error (status code: 500)"),
     Raise("ResponseError", "no ollama models installed on this host")}

OllamaListResponses ==
    OllamaListErrors
      \cup {[kind |-> "ok", has_models_attr |-> FALSE, data |-> << >>]}
      \cup {[kind |-> "ok", has_models_attr |-> TRUE, data |-> l] :
               l \in Sublistings(OllamaCatalog, MaxListing)}

\* openai.models.list()
OpenAICatalog == << "gpt-4o", "whisper-1", "gpt-5-mini" >>

OpenAIAuthErrors ==
    {Raise("AuthenticationError", "Error code: 401 - Incorrect API key provided"),
     Raise("PermissionDeniedError", "Error code: 403 - Forbidden")}

OpenAINetErrors ==
    {Raise("APIConnectionError", "Connection error."),
     Raise("RateLimitError", "Error code: 429 - Rate limit reached")}

\* only the accepted credential gets a listing; a rejected or empty one is
\* refused
OpenAIListResponses(key) ==
    IF key = GoodKey
    THEN OpenAINetErrors \cup {SdkOk(l) : l \in Sublistings(OpenAICatalog, MaxListing)}
    ELSE OpenAIAuthErrors \cup OpenAINetErrors

\* genai.list_models()
GenerateContent == "generateContent"

GeminiCatalog ==
    {[name |-> "models/gemini-1.5-flash", supported_generation_methods |-> {GenerateContent}],
     [name |-> "models/gemini-pro", supported_generation_methods |-> {GenerateContent}],
     [name |-> "models/gemini-1.5-pro-latest", supported_generation_methods |-> {GenerateContent}],
     [name |-> "models/gemini-1.0-pro", supported_generation_methods |-> {"countTokens"}]}

GoogleAuthErrors ==
    {Raise("InvalidArgument", "400 API key not valid. Please pass a valid API key."),
     Raise("PermissionDenied", "403 Permission denied")}

GoogleNetErrors ==
    {Raise("ServiceUnavailable", "503 failed to connect: connection timeout"),
     Raise("ResourceExhausted", "429 Resource has been exhausted")}

GoogleListResponses(key) ==
    IF key = GoodKey
    THEN GoogleNetErrors \cup {SdkOk(l) : l \in Listings(GeminiCatalog, MaxListing)}
    ELSE GoogleAuthErrors \cup GoogleNetErrors

(***************************************************************************)
(* Provider adapters: list_models.  Each returns [out, ev]: the outcome of *)
(* the call and the events (credential loads, SDK calls) it performed.     *)
(***************************************************************************)
EvLoadKeys == <<"load_keys">>
EvSdk(provider, call) == <<"sdk", provider, call>>

HasSdk(ev, provider, call) ==
    \E i \in DOMAIN ev : ev[i][1] = "sdk" /\ ev[i][2] = provider /\ ev[i][3] = call

\* a response is drawn exactly for the SDK calls the handler made
Drawn(resp, ev, provider, call) == (resp # NotCalled) <=> HasSdk(ev, provider, call)

\* the except clause of get_ollama_models without the branch that re-raises
\* the adapter's own "no models" error
ollama_list_handler_no_reraise(e) ==
    LET error_str == Lower(e.msg) IN
    IF \/ Contains(error_str, "connect") \/ Contains(error_str, "connection")
       \/ Contains(error_str, "refused") \/ Contains(error_str, "unreachable")
    THEN Raise("ValueError", "Ollama is not running. Please start Ollama to use local models.")
    ELSE Raise("ValueError", "Ollama error: " \o e.msg)

\* the except clause of get_ollama_models
ollama_list_handler(e) ==
    LET error_str == Lower(e.msg) IN
    IF \/ Contains(error_str, "connect") \/ Contains(error_str, "connection")
       \/ Contains(error_str, "refused") \/ Contains(error_str, "unreachable")
    THEN Raise("ValueError", "Ollama is not running. Please start Ollama to use local models.")
    ELSE IF Contains(error_str, "no ollama models installed")
         THEN e
         ELSE Raise("ValueError", "Ollama error: " \o e.msg)

RECURSIVE format_ollama_models(_)
format_ollama_models(ms) ==
    IF ms = << >> THEN << >>
    ELSE LET model == Head(ms)
             model_name == SplitFirst(model.model, ":")
         IN  (IF model.has_model /\ model_name # ""
              THEN << [key |-> "ollama_" \o model_name,
                       label |-> "Ollama: " \o Capitalize(model_name),
                       provider |-> "ollama"] >>
              ELSE << >>)
             \o format_ollama_models(Tail(ms))

get_ollama_models(resp) ==
    [ev |-> << EvSdk("ollama", "list") >>,
     out |->
       IF resp.kind = "raise" THEN ollama_list_handler(resp)
       ELSE IF ~resp.has_models_attr THEN Ret(<< >>)
       ELSE IF Len(resp.data) = 0
            THEN ollama_list_handler(
                   Raise("ValueError",
                         "No Ollama models installed. Install a model with: ollama pull llama3"))
            ELSE Ret(format_ollama_models(resp.data))]

\* an except clause that logs the failure and returns the empty list, as the
\* docstring of get_openai_models describes
openai_list_handler_returns_empty(e) == Ret(<< >>)

\* the except clause of get_openai_models
openai_list_handler(e) ==
    LET error_str == Lower(e.msg) IN
    IF \/ Contains(error_str, "401") \/ Contains(error_str, "unauthorized")
       \/ Contains(error_str, "authentication") \/ Contains(error_str, "api key")
    THEN Raise("ValueError", "OpenAI API key is invalid. Please check your key in Settings.")
    ELSE IF Contains(error_str, "403") \/ Contains(error_str, "forbidden")
    THEN Raise("ValueError", "OpenAI API key lacks required permissions. Please check your key in Settings.")
    ELSE IF \/ Contains(error_str, "connection") \/ Contains(error_str, "timeout")
            \/ Contains(error_str, "network")
    THEN Raise("ValueError", "Unable to connect to OpenAI. Please check your internet connection.")
    ELSE Raise("ValueError", "OpenAI error: " \o e.msg)

RECURSIVE format_openai_models(_)
format_openai_models(ms) ==
    IF ms = << >> THEN << >>
    ELSE LET model_id == Head(ms) IN
         (IF \E prefix \in {"gpt-4", "gpt-3.5", "gpt-5"} : Contains(model_id, prefix)
          THEN << [key |-> "openai_" \o ReplaceChar(ReplaceChar(model_id, "-", "_"), ".", "_"),
                   label |-> "OpenAI: " \o Upper(model_id),
                   provider |-> "openai",
                   model_id |-> model_id] >>
          ELSE << >>)
         \o format_openai_models(Tail(ms))

\* get_openai_models without the early return for an absent key: the client
\* setup raises and the except clause classifies the message
get_openai_models_no_skip(stored, resp) ==
    LET keys == _get_fresh_api_keys(stored) IN
    IF keys["openai"] = ""
    THEN [ev |-> << EvLoadKeys >>,
          out |-> openai_list_handler(Raise("ValueError", "OpenAI API key is not configured."))]
    ELSE [ev |-> << EvLoadKeys, EvSdk("openai", "list") >>,
          out |-> IF resp.kind = "raise" THEN openai_list_handler(resp)
                  ELSE Ret(format_openai_models(resp.data))]

get_openai_models(stored, resp) ==
    LET keys == _get_fresh_api_keys(stored) IN
    IF keys["openai"] = ""
    THEN [ev |-> << EvLoadKeys >>, out |-> Ret(<< >>)]
    ELSE [ev |-> << EvLoadKeys, EvSdk("openai", "list") >>,
          out |-> IF resp.kind = "raise" THEN openai_list_handler(resp)
                  ELSE Ret(format_openai_models(resp.data))]

\* the hardcoded list of get_anthropic_models
anthropic_models ==
    << [key |-> "claude_3_5_sonnet", label |-> "Anthropic: Claude 3.5 Sonnet",
        provider |-> "anthropic", model_id |-> "claude-3-5-sonnet-20240620"],
       [key |-> "claude_3_5_haiku", label |-> "Anthropic: Claude 3.5 Haiku",
        provider |-> "anthropic", model_id |-> "claude-3-5-haiku-20241022"],
       [key |-> "claude_3_opus", label |-> "Anthropic: Claude 3 Opus",
        provider |-> "anthropic", model_id |-> "claude-3-opus-20240229"] >>

get_anthropic_models(stored) ==
    LET keys == _get_fresh_api_keys(stored) IN
    IF keys["anthropic"] = ""
    THEN [ev |-> << EvLoadKeys >>, out |-> Ret(<< >>)]
    ELSE [ev |-> << EvLoadKeys >>, out |-> Ret(anthropic_models)]

\* the except clause of get_google_models
google_list_handler(e) ==
    LET error_str == Lower(e.msg) IN
    IF \/ Contains(error_str, "401") \/ Contains(error_str, "unauthorized")
       \/ Contains(error_str, "authentication") \/ Contains(error_str, "api key")
       \/ Contains(error_str, "invalid")
    THEN Raise("ValueError", "Google Gemini API key is invalid. Please check your key in Settings.")
    ELSE IF Contains(error_str, "403") \/ Contains(error_str, "forbidden")
    THEN Raise("ValueError", "Google Gemini API key lacks required permissions. Please check your key in Settings.")
    ELSE IF \/ Contains(error_str, "connection") \/ Contains(error_str, "timeout")
            \/ Contains(error_str, "network")
    THEN Raise("ValueError", "Unable to connect to Google Gemini. Please check your internet connection.")
    ELSE Raise("ValueError", "Google Gemini error: " \o e.msg)

RECURSIVE format_google_models(_)
format_google_models(ms) ==
    IF ms = << >> THEN << >>
    ELSE LET model == Head(ms)
             model_name == RemoveAll(model.name, "models/")
         IN  (IF GenerateContent \in model.supported_generation_methods
              THEN << [key |-> "gemini_" \o ReplaceChar(ReplaceChar(model_name, "-", "_"), ".", "_"),
                       label |-> "Google: " \o Title(model_name),
                       provider |-> "google",
                       model_id |-> model_name] >>
              ELSE << >>)
             \o format_google_models(Tail(ms))

\* get_google_models without the early return for an absent key: the
\* listing request is sent without a credential
get_google_models_no_skip(stored, resp) ==
    [ev |-> << EvLoadKeys, EvSdk("google", "list") >>,
     out |-> IF resp.kind = "raise" THEN google_list_handler(resp)
             ELSE Ret(format_google_models(resp.data))]

get_google_models(stored, resp) ==
    LET keys == _get_fresh_api_keys(stored) IN
    IF keys["google"] = ""
    THEN [ev |-> << EvLoadKeys >>, out |-> Ret(<< >>)]
    ELSE [ev |-> << EvLoadKeys, EvSdk("google", "list") >>,
          out |-> IF resp.kind = "raise" THEN google_list_handler(resp)
                  ELSE Ret(format_google_models(resp.data))]

(***************************************************************************)
(* The adapters are pure functions of the stored configuration and of the  *)
(* SDK response; their results are tabulated once over all configurations  *)
(* and responses.                                                          *)
(***************************************************************************)
StoredValues == {encrypt_key(k) : k \in Plaintexts} \cup {CorruptCiphertext}
Configs == [CloudProviders -> StoredValues]

AllOpenAIListResponses == UNION {OpenAIListResponses(k) : k \in Plaintexts} \cup {NotCalled}
AllGoogleListResponses == UNION {GoogleListResponses(k) : k \in Plaintexts} \cup {NotCalled}

OllamaListCalls == Tabulate([r \in OllamaListResponses |-> get_ollama_models(r)])
OpenAIListCalls ==
    Tabulate([st \in Configs |->
                Tabulate([r \in AllOpenAIListResponses |-> get_openai_models(st, r)])])
AnthropicListCalls == Tabulate([st \in Configs |-> get_anthropic_models(st)])
GoogleListCalls ==
    Tabulate([st \in Configs |->
                Tabulate([r \in AllGoogleListResponses |-> get_google_models(st, r)])])

(***************************************************************************)
(* Discovery Aggregator: get_all_available_models                          *)
(***************************************************************************)
FallbackMessage(p) ==
    CASE p = "ollama"    -> "Ollama service error. Please check Ollama installation."
      [] p = "openai"    -> "OpenAI service error. Please check your API key."
      [] p = "anthropic" -> "Anthropic service error. Please check your API key."
      [] p = "google"    -> "Google Gemini service error. Please check your API key."

Put(f, k, v) == [x \in DOMAIN f \cup {k} |-> IF x = k THEN v ELSE f[x]]

\* try_provider without the "except Exception" clause: an exception that is
\* not a ValueError leaves get_all_available_models
try_provider_no_catch_all(acc, p, call) ==
    LET called == [acc EXCEPT !.ev = @ \o call.ev, !.queried = Append(@, p)] IN
    IF call.out.kind = "return"
    THEN [called EXCEPT !.all_models = @ \o call.out.value]
    ELSE IF IsValueError(call.out)
         THEN [called EXCEPT !.provider_errors = Put(@, p, call.out.msg)]
         ELSE [called EXCEPT !.propagated = << call.out >>]

\* try_provider whose "except ValueError" clause records the message and
\* then re-raises
try_provider_reraise(acc, p, call) ==
    LET called == [acc EXCEPT !.ev = @ \o call.ev, !.queried = Append(@, p)] IN
    IF call.out.kind = "return"
    THEN [called EXCEPT !.all_models = @ \o call.out.value]
    ELSE IF IsValueError(call.out)
         THEN [called EXCEPT !.provider_errors = Put(@, p, call.out.msg),
                             !.propagated = << call.out >>]
         ELSE [called EXCEPT !.provider_errors = Put(@, p, FallbackMessage(p))]

\* try_provider whose "except ValueError" clause only logs
try_provider_drop_error(acc, p, call) ==
    LET called == [acc EXCEPT !.ev = @ \o call.ev, !.queried = Append(@, p)] IN
    IF call.out.kind = "return"
    THEN [called EXCEPT !.all_models = @ \o call.out.value]
    ELSE IF IsValueError(call.out)
         THEN called
         ELSE [called EXCEPT !.provider_errors = Put(@, p, FallbackMessage(p))]

\* try_provider that inserts the adapter's descriptors in front of the list
try_provider_prepend(acc, p, call) ==
    LET called == [acc EXCEPT !.ev = @ \o call.ev, !.queried = Append(@, p)] IN
    IF call.out.kind = "return"
    THEN [called EXCEPT !.all_models = call.out.value \o @]
    ELSE IF IsValueError(call.out)
         THEN [called EXCEPT !.provider_errors = Put(@, p, call.out.msg)]
         ELSE [called EXCEPT !.provider_errors = Put(@, p, FallbackMessage(p))]

\* one try / except ValueError / except Exception block; acc.propagated holds
\* an exception that left the function
try_provider(acc, p, call) ==
    LET called == [acc EXCEPT !.ev = @ \o call.ev, !.queried = Append(@, p)] IN
    IF call.out.kind = "return"
    THEN [called EXCEPT !.all_models = @ \o call.out.value]
    ELSE IF IsValueError(call.out)
         THEN [called EXCEPT !.provider_errors = Put(@, p, call.out.msg)]
         ELSE [called EXCEPT !.provider_errors = Put(@, p, FallbackMessage(p))]

\* the four blocks in order; calls[p] is what provider p's adapter does when
\* it is called, and an exception that leaves a block ends the function
RECURSIVE query_providers(_, _, _)
query_providers(acc, i, calls) ==
    IF i > Len(ProviderOrder) \/ acc.propagated # << >> THEN acc
    ELSE query_providers(try_provider(acc, ProviderOrder[i], calls[ProviderOrder[i]]),
                         i + 1, calls)

get_all_available_models(calls) ==
    LET acc == query_providers(
                 [all_models |-> << >>, provider_errors |-> << >>,
                  ev |-> << >>, queried |-> << >>, propagated |-> << >>],
                 1, calls)
    IN  [ev |-> acc.ev,
         queried |-> acc.queried,
         out |-> IF acc.propagated # << >> THEN acc.propagated[1]
                 ELSE Ret([models |-> acc.all_models,
                           provider_errors |->
                              IF DOMAIN acc.provider_errors = {} THEN PyNone
                              ELSE PyDict(acc.provider_errors)])]

(***************************************************************************)
(* Provider adapters: generate                                             *)
(***************************************************************************)
GeneratedText == "Generated text."
Prompts == {"hi"}

\* ollama.chat / openai.chat.completions.create / client.messages.create /
\* model_instance.generate_content
OllamaChatResponses ==
    {Raise("ResponseError", "model not found, try pulling it first"),
     Raise("ConnectionError", "Failed to connect to Ollama"),
     Raise("ResponseError", "unexpected EOF"),
     SdkOk(GeneratedText)}

OpenAIChatResponses(key) ==
    IF key = GoodKey
    THEN OpenAINetErrors
           \cup {Raise("NotFoundError", "Error code: 404 - The model does not exist"),
                 SdkOk(GeneratedText)}
    ELSE OpenAIAuthErrors \cup OpenAINetErrors

AnthropicAuthErrors ==
    {Raise("AuthenticationError", "Error code: 401 - invalid x-api-key")}

AnthropicNetErrors ==
    {Raise("APIConnectionError", "Connection error."),
     Raise("InternalServerError", "Error code: 529 - Overloaded")}

AnthropicChatResponses(key) ==
    IF key = GoodKey
    THEN AnthropicNetErrors \cup {SdkOk(GeneratedText)}
    ELSE AnthropicAuthErrors \cup AnthropicNetErrors

GoogleChatResponses(key) ==
    IF key = GoodKey
    THEN GoogleNetErrors
           \cup {Raise("NotFound", "404 model is not found for API version v1beta"),
                 SdkOk(GeneratedText)}
    ELSE GoogleAuthErrors \cup GoogleNetErrors

ChatResponses(p, keys) ==
    CASE p = "ollama"    -> OllamaChatResponses
      [] p = "openai"    -> OpenAIChatResponses(keys["openai"])
      [] p = "anthropic" -> AnthropicChatResponses(keys["anthropic"])
      [] p = "google"    -> GoogleChatResponses(keys["google"])

EvAdapter(provider, model) == <<"adapter", provider, model>>
EvGenerate(provider, model) == <<"sdk", provider, "generate", model>>

\* the outcome of an SDK call that is not wrapped in a try block
SdkOutcome(resp) == IF resp.kind = "raise" THEN resp ELSE Ret(resp.data)

\* every adapter returns [out, ev, cache]: outcome, events, and the
\* preferred-model cache after the call
_call_ollama(model, prompt, cache, resp) ==
    [ev |-> << EvAdapter("ollama", model), EvGenerate("ollama", model) >>,
     cache |-> cache,
     out |-> IF resp.kind = "raise"
             THEN IF Contains(Lower(resp.msg), "not found")
                  THEN Raise("ValueError",
                             "Ollama model '" \o model \o "' is not installed. Please run: ollama pull "
                                \o model)
                  ELSE resp
             ELSE Ret(resp.data)]

_call_openai(model, prompt, stored, cache, resp) ==
    LET keys == _get_fresh_api_keys(stored) IN
    IF keys["openai"] = ""
    THEN [ev |-> << EvAdapter("openai", model), EvLoadKeys >>, cache |-> cache,
          out |-> Raise("ValueError", "OpenAI API key is not configured.")]
    ELSE [ev |-> << EvAdapter("openai", model), EvLoadKeys, EvGenerate("openai", model) >>,
          cache |-> cache,
          out |-> SdkOutcome(resp)]

_call_anthropic(model, prompt, stored, cache, resp) ==
    LET keys == _get_fresh_api_keys(stored) IN
    IF keys["anthropic"] = ""
    THEN [ev |-> << EvAdapter("anthropic", model), EvLoadKeys >>, cache |-> cache,
          out |-> Raise("ValueError", "Anthropic API key is not configured.")]
    ELSE [ev |-> << EvAdapter("anthropic", model), EvLoadKeys,
                    EvGenerate("anthropic", model) >>,
          cache |-> cache,
          out |-> SdkOutcome(resp)]

model_preferences ==
    << "gemini-1.5-pro-latest", "gemini-1.5-pro", "gemini-pro", "gemini-1.0-pro" >>

InPreferences(model_name) ==
    \E i \in DOMAIN model_preferences : model_preferences[i] = model_name

\* the first loop without the supported_generation_methods test
RECURSIVE first_preferred_any_capability(_)
first_preferred_any_capability(ms) ==
    IF ms = << >> THEN << >>
    ELSE LET model_name == RemoveAll(Head(ms).name, "models/") IN
         IF InPreferences(model_name)
         THEN << model_name >>
         ELSE first_preferred_any_capability(Tail(ms))

\* first loop of _get_working_gemini_model: << name >> of the first listed
\* model that is preferred and generates content, << >> if there is none
RECURSIVE first_preferred(_)
first_preferred(ms) ==
    IF ms = << >> THEN << >>
    ELSE LET model_name == RemoveAll(Head(ms).name, "models/") IN
         IF /\ InPreferences(model_name)
            /\ GenerateContent \in Head(ms).supported_generation_methods
         THEN << model_name >>
         ELSE first_preferred(Tail(ms))

\* the second loop without the supported_generation_methods test
RECURSIVE first_generating_any_capability(_)
first_generating_any_capability(ms) ==
    IF ms = << >> THEN << >>
    ELSE << RemoveAll(Head(ms).name, "models/") >>

\* second loop: the first listed model that generates content
RECURSIVE first_generating(_)
first_generating(ms) ==
    IF ms = << >> THEN << >>
    ELSE IF GenerateContent \in Head(ms).supported_generation_methods
         THEN << RemoveAll(Head(ms).name, "models/") >>
         ELSE first_generating(Tail(ms))

\* cache is << >> while the function has no _cached_model attribute
_get_working_gemini_model(cache, resp) ==
    IF cache # << >>
    THEN [model |-> cache[1], cache |-> cache, ev |-> << >>]
    ELSE LET ev == << EvSdk("google", "list") >> IN
         IF resp.kind = "raise"
         THEN [model |-> "gemini-pro", cache |-> cache, ev |-> ev]
         ELSE LET preferred == first_preferred(resp.data)
                  fallback == first_generating(resp.data)
              IN  IF preferred # << >>
                  THEN [model |-> preferred[1], cache |-> preferred, ev |-> ev]
                  ELSE IF fallback # << >>
                       THEN [model |-> fallback[1], cache |-> fallback, ev |-> ev]
                       ELSE [model |-> "gemini-pro", cache |-> cache, ev |-> ev]

_call_gemini(model, prompt, stored, cache, listResp, resp) ==
    LET keys == _get_fresh_api_keys(stored) IN
    IF keys["google"] = ""
    THEN [ev |-> << EvAdapter("google", model), EvLoadKeys >>, cache |-> cache,
          out |-> Raise("ValueError", "Google Gemini API key is not configured.")]
    ELSE LET working == _get_working_gemini_model(cache, listResp) IN
         [ev |-> << EvAdapter("google", model), EvLoadKeys >> \o working.ev
                   \o << EvGenerate("google", working.model) >>,
          cache |-> working.cache,
          out |-> SdkOutcome(resp)]

(***************************************************************************)
(* Router: generate_response                                               *)
(***************************************************************************)
\* the elif chain testing the provider's name where the keys say "claude"
provider_of_key_by_name(model_key) ==
    IF StartsWith(model_key, "ollama") THEN "ollama"
    ELSE IF StartsWith(model_key, "openai") THEN "openai"
    ELSE IF StartsWith(model_key, "anthropic") THEN "anthropic"
    ELSE IF StartsWith(model_key, "gemini") THEN "google"
    ELSE "unknown"

\* the if / elif chain on the key's prefix
provider_of_key(model_key) ==
    IF StartsWith(model_key, "ollama") THEN "ollama"
    ELSE IF StartsWith(model_key, "openai") THEN "openai"
    ELSE IF StartsWith(model_key, "claude") THEN "anthropic"
    ELSE IF StartsWith(model_key, "gemini") THEN "google"
    ELSE "unknown"

\* the body of the try block; env.chat[p] is the answer of provider p's
\* generation endpoint, env.list the answer of genai.list_models
dispatch(model_key, model_name, prompt, stored, cache, env) ==
    LET provider == provider_of_key(model_key) IN
    CASE provider = "ollama" ->
           _call_ollama(model_name, prompt, cache, env.chat["ollama"])
      [] provider = "openai" ->
           _call_openai(model_name, prompt, stored, cache, env.chat["openai"])
      [] provider = "anthropic" ->
           _call_anthropic(model_name, prompt, stored, cache, env.chat["anthropic"])
      [] provider = "google" ->
           _call_gemini(model_name, prompt, stored, cache, env.list, env.chat["google"])
      [] OTHER ->
           [ev |-> << >>, cache |-> cache,
            out |-> Raise("ValueError", "Unknown model provider.")]

\* an except clause that logs and re-raises
inline_error_reraise(model_key, e) == e

\* the except clause: the failure becomes the returned string
inline_error(model_key, e) ==
    Ret("Error: Could not get a response from " \o model_key \o ". " \o e.msg)

\* generate_response with the registry lookup moved inside the try block
generate_response_lookup_in_try(prompt, model_key, stored, cache, env) ==
    IF model_key \notin DOMAIN SUPPORTED_MODELS
    THEN [ev |-> << >>, cache |-> cache,
          out |-> inline_error(model_key,
                     Raise("ValueError", "Model '" \o model_key \o "' is not supported."))]
    ELSE LET model_name == SUPPORTED_MODELS[model_key]
             call == dispatch(model_key, model_name, prompt, stored, cache, env)
         IN  [ev |-> call.ev, cache |-> call.cache,
              out |-> IF call.out.kind = "raise" THEN inline_error(model_key, call.out)
                      ELSE call.out]

\* generate_response that forwards the internal key instead of the
\* registry's backend model identifier
generate_response_forwards_key(prompt, model_key, stored, cache, env) ==
    IF model_key \notin DOMAIN SUPPORTED_MODELS
    THEN [ev |-> << >>, cache |-> cache,
          out |-> Raise("ValueError", "Model '" \o model_key \o "' is not supported.")]
    ELSE LET call == dispatch(model_key, model_key, prompt, stored, cache, env)
         IN  [ev |-> call.ev, cache |-> call.cache,
              out |-> IF call.out.kind = "raise" THEN inline_error(model_key, call.out)
                      ELSE call.out]

generate_response(prompt, model_key, stored, cache, env) ==
    IF model_key \notin DOMAIN SUPPORTED_MODELS
    THEN [ev |-> << >>, cache |-> cache,
          out |-> Raise("ValueError", "Model '" \o model_key \o "' is not supported.")]
    ELSE LET model_name == SUPPORTED_MODELS[model_key]
             call == dispatch(model_key, model_name, prompt, stored, cache, env)
         IN  [ev |-> call.ev, cache |-> call.cache,
              out |-> IF call.out.kind = "raise" THEN inline_error(model_key, call.out)
                      ELSE call.out]

\* the registry keys of the Gemini provider that workers are asked for
GeminiRequestKeys == {"gemini_1_5_pro"}

\* keys the HTTP layer may pass: the registry's, keys that discovery offers
\* and the registry lacks, and a key of no provider
RouteKeys ==
    DOMAIN SUPPORTED_MODELS
      \cup {"unknown_key", "claude_3_5_haiku", "openai_gpt_4o", "gemini_gemini_pro"}

(***************************************************************************)
(* Connection tests: test_api_connection                                   *)
(***************************************************************************)
test_success(provider, message) ==
    Ret([success |-> TRUE, message |-> message, provider |-> provider])

test_failure(provider, message, error) ==
    Ret([success |-> FALSE, message |-> message, provider |-> provider, error |-> error])

\* every test returns [out, ev, suitable, used]: the returned dict, the
\* events, << suitable_model >> where one was selected from a listing, and
\* << model >> for the model whose generation call succeeded
test_ollama_connection(model, resp) ==
    [ev |-> << EvGenerate("ollama", model) >>, suitable |-> << >>,
     used |-> IF resp.kind = "raise" THEN << >> ELSE << model >>,
     out |-> IF resp.kind = "raise"
             THEN IF Contains(Lower(resp.msg), "not found")
                  THEN test_failure("ollama",
                          "Model '" \o model \o "' not found. Install with: ollama pull " \o model,
                          resp.msg)
                  ELSE test_failure("ollama", "Ollama connection failed: " \o resp.msg, resp.msg)
             ELSE test_success("ollama", "Ollama model '" \o model \o "' is working correctly")]

OpenAITestModel == "gpt-4o-mini"

test_openai_connection(stored, resp) ==
    LET keys == _get_fresh_api_keys(stored)
        fail(msg) == test_failure("openai", "OpenAI API connection failed: " \o msg, msg)
    IN  IF keys["openai"] = ""
        THEN [ev |-> << EvLoadKeys >>, suitable |-> << >>, used |-> << >>,
              out |-> fail("OpenAI API key is not configured.")]
        ELSE [ev |-> << EvLoadKeys, EvGenerate("openai", OpenAITestModel) >>,
              suitable |-> << >>,
              used |-> IF resp.kind = "raise" THEN << >> ELSE << OpenAITestModel >>,
              out |-> IF resp.kind = "raise" THEN fail(resp.msg)
                      ELSE test_success("openai", "OpenAI API connection successful")]

AnthropicTestModel == "claude-3-5-haiku-20241022"

test_anthropic_connection(stored, resp) ==
    LET keys == _get_fresh_api_keys(stored)
        fail(msg) == test_failure("anthropic", "Anthropic API connection failed: " \o msg, msg)
    IN  IF keys["anthropic"] = ""
        THEN [ev |-> << EvLoadKeys >>, suitable |-> << >>, used |-> << >>,
              out |-> fail("Anthropic API key is not configured.")]
        ELSE [ev |-> << EvLoadKeys, EvGenerate("anthropic", AnthropicTestModel) >>,
              suitable |-> << >>,
              used |-> IF resp.kind = "raise" THEN << >> ELSE << AnthropicTestModel >>,
              out |-> IF resp.kind = "raise" THEN fail(resp.msg)
                      ELSE test_success("anthropic", "Anthropic API connection successful")]

\* first loop of test_gemini_connection: << name >> of the first listed model
\* that is in model_preferences, << >> if there is none
RECURSIVE first_in_preferences(_)
first_in_preferences(ms) ==
    IF ms = << >> THEN << >>
    ELSE LET model_name == RemoveAll(Head(ms).name, "models/") IN
         IF InPreferences(model_name)
         THEN << model_name >>
         ELSE first_in_preferences(Tail(ms))

\* the selection of suitable_model from a listing
suitable_model(ms) ==
    IF first_in_preferences(ms) # << >> THEN first_in_preferences(ms)
    ELSE first_generating(ms)

GeminiFallbackModel == "gemini-pro"

\* the except clause of the inner try: one generation call with "gemini-pro"
gemini_fallback(ev, suitable, fallbackResp) ==
    [ev |-> ev \o << EvGenerate("google", GeminiFallbackModel) >>,
     suitable |-> suitable,
     used |-> IF fallbackResp.kind = "raise" THEN << >> ELSE << GeminiFallbackModel >>,
     out |-> IF fallbackResp.kind = "raise"
             THEN test_failure("google",
                     "Google Gemini API connection failed: " \o fallbackResp.msg,
                     fallbackResp.msg)
             ELSE test_success("google",
                     "Google Gemini API connection successful (using gemini-pro)")]

\* listResp answers genai.list_models, resp the generation call with the
\* suitable model, fallbackResp the generation call with "gemini-pro"
test_gemini_connection(stored, listResp, resp, fallbackResp) ==
    LET keys == _get_fresh_api_keys(stored) IN
    IF keys["google"] = ""
    THEN [ev |-> << EvLoadKeys >>, suitable |-> << >>, used |-> << >>,
          out |-> test_failure("google",
                     "Google Gemini API connection failed: Google Gemini API key is not configured.",
                     "Google Gemini API key is not configured.")]
    ELSE LET listed == << EvLoadKeys, EvSdk("google", "list") >> IN
         IF listResp.kind = "raise"
         THEN gemini_fallback(listed, << >>, fallbackResp)
         ELSE LET suitable == suitable_model(listResp.data) IN
              IF suitable = << >>
              THEN [ev |-> listed, suitable |-> << >>, used |-> << >>,
                    out |-> test_failure("google",
                               "No suitable Gemini models found for text generation",
                               "No compatible models available")]
              ELSE LET tried == listed \o << EvGenerate("google", suitable[1]) >> IN
                   IF resp.kind = "raise"
                   THEN gemini_fallback(tried, suitable, fallbackResp)
                   ELSE [ev |-> tried, suitable |-> suitable, used |-> suitable,
                         out |-> test_success("google",
                                    "Google Gemini API connection successful (using "
                                       \o suitable[1] \o ")")]

\* env.chat answers the (first) generation call, env.list the listing,
\* env.fallback the generation call of the Gemini fallback
test_api_connection(provider, stored, env) ==
    CASE provider = "ollama" -> test_ollama_connection("mistral", env.chat)
      [] provider = "openai" -> test_openai_connection(stored, env.chat)
      [] provider = "anthropic" -> test_anthropic_connection(stored, env.chat)
      [] provider = "google" ->
           test_gemini_connection(stored, env.list, env.chat, env.fallback)
      [] OTHER ->
           [ev |-> << >>, suitable |-> << >>, used |-> << >>,
            out |-> test_failure(provider, "Unknown provider: " \o provider, "Invalid provider")]

(***************************************************************************)
(* Configuration file (config_service): load_config and the migration of  *)
(* keys written under the old hardcoded key.  The ciphertext of a          *)
(* plaintext p under the old key is "old:" \o p; decrypting it with the    *)
(* file-based key fails, and so does decrypting anything else with the    *)
(* old key.                                                                *)
(***************************************************************************)
\* what the versions that used OLD_SECRET_KEY stored for a plaintext
old_key_encrypt(api_key) == "old:" \o api_key

\* AES-CBC decryption and unpad under the key derived from OLD_SECRET_KEY
old_key_decrypt(encrypted_value) ==
    IF StartsWith(encrypted_value, "old:") /\ Len(encrypted_value) > 4
    THEN Ret(SubSeq(encrypted_value, 5, Len(encrypted_value)))
    ELSE Raise("ValueError", "Padding is incorrect.")

\* config.json: absent, not JSON, or a config with its api_keys and its two
\* migration flags (a flag that is absent reads as FALSE)
NoConfigFile == [kind |-> "absent"]
InvalidJson == [kind |-> "invalid"]
ConfigOf(keys, machine, file) ==
    [kind |-> "config", api_keys |-> keys,
     _migrated_to_machine_key |-> machine, _migrated_to_file_key |-> file]

FileValues ==
    {"", encrypt_key(GoodKey), old_key_encrypt(GoodKey), old_key_encrypt(BadKey),
     CorruptCiphertext}

ConfigFiles ==
    {NoConfigFile, InvalidJson}
      \cup {ConfigOf(keys, machine, file) :
               keys \in [CloudProviders -> FileValues], machine \in BOOLEAN, file \in BOOLEAN}

is_old_encryption(config) ==
    \E key_name \in DOMAIN config.api_keys :
       /\ config.api_keys[key_name] # ""
       /\ old_key_decrypt(config.api_keys[key_name]).kind = "return"

migrate_old_keys(config) ==
    [config EXCEPT
       !.api_keys = [key_name \in DOMAIN config.api_keys |->
                       LET encrypted_value == config.api_keys[key_name]
                           plaintext == old_key_decrypt(encrypted_value)
                       IN  IF encrypted_value = "" THEN ""
                           ELSE IF plaintext.kind = "return"
                                THEN encrypt_key(plaintext.value)
                                ELSE ""],
       !._migrated_to_machine_key = TRUE]

get_default_config == ConfigOf([p \in CloudProviders |-> ""], FALSE, FALSE)

\* the first block of load_config: migration from the old hardcoded key
migrate_from_old_key(config) ==
    IF ~config._migrated_to_machine_key
    THEN IF is_old_encryption(config)
         THEN migrate_old_keys(config)
         ELSE [config EXCEPT !._migrated_to_machine_key = TRUE]
    ELSE config

\* the second block: migration from the MAC-based to the file-based key
migrate_to_file_key(config) ==
    IF config._migrated_to_machine_key /\ ~config._migrated_to_file_key
    THEN [config EXCEPT !.api_keys = [p \in CloudProviders |-> ""],
                        !._migrated_to_file_key = TRUE]
    ELSE IF config._migrated_to_file_key
         THEN config
         ELSE [config EXCEPT !._migrated_to_file_key = TRUE]

\* load_config returns [out, file]: the returned config and config.json as
\* the calls of save_config leave it
load_config(file) ==
    IF file = NoConfigFile
    THEN [out |-> get_default_config, file |-> get_default_config]
    ELSE IF file = InvalidJson
         THEN [out |-> get_default_config, file |-> file]
         ELSE LET config == migrate_to_file_key(migrate_from_old_key(file)) IN
              [out |-> config, file |-> config]

(***************************************************************************)
(* Chunker: create_chunks_from_segments                                    *)
(***************************************************************************)
\* bounds of the segment sequences
MaxSegments == 3

\* str.strip() on texts whose only whitespace is the space character
RECURSIVE LStrip(_)
LStrip(s) == IF s # "" /\ Head(s) = " " THEN LStrip(Tail(s)) ELSE s

RECURSIVE RStrip(_)
RStrip(s) ==
    IF s # "" /\ CharAt(s, Len(s)) = " " THEN RStrip(SubSeq(s, 1, Len(s) - 1)) ELSE s

Strip(s) == LStrip(RStrip(s))

\* Whisper segments; times are whole seconds
SegmentTexts == {"", "Hello ", "world.", " a"}
SegmentSpans == {<<0, 2>>, <<2, 5>>, <<5, 5>>}
Segments ==
    {[start |-> sp[1], end |-> sp[2], text |-> t] : sp \in SegmentSpans, t \in SegmentTexts}
MaxChunkSizes == {1, 7, 13, 100}

\* the loop's locals before the first segment; run and runs record which
\* segments (by position) went into the buffer and into each closed chunk
ChunkerStart ==
    [chunks |-> << >>, current_chunk_text |-> "", current_chunk_start_time |-> 0,
     runs |-> << >>, run |-> << >>]

\* the loop body without the separator after a segment's text
fold_segment_no_separator(st, segments, i, max_chunk_size) ==
    LET segment == segments[i]
        start == IF st.current_chunk_text = "" THEN segment.start
                 ELSE st.current_chunk_start_time
        text == st.current_chunk_text \o segment.text
        chunk == [text |-> Strip(text), start_time |-> start, end_time |-> segment.end]
    IN  IF Len(text) >= max_chunk_size \/ i = Len(segments)
        THEN [chunks |-> Append(st.chunks, chunk),
              current_chunk_text |-> "", current_chunk_start_time |-> start,
              runs |-> Append(st.runs, Append(st.run, i)), run |-> << >>]
        ELSE [chunks |-> st.chunks,
              current_chunk_text |-> text, current_chunk_start_time |-> start,
              runs |-> st.runs, run |-> Append(st.run, i)]

\* the loop body without the "or i == len(segments) - 1" test
fold_segment_ignores_last(st, segments, i, max_chunk_size) ==
    LET segment == segments[i]
        start == IF st.current_chunk_text = "" THEN segment.start
                 ELSE st.current_chunk_start_time
        text == st.current_chunk_text \o segment.text \o " "
        chunk == [text |-> Strip(text), start_time |-> start, end_time |-> segment.end]
    IN  IF Len(text) >= max_chunk_size
        THEN [chunks |-> Append(st.chunks, chunk),
              current_chunk_text |-> "", current_chunk_start_time |-> start,
              runs |-> Append(st.runs, Append(st.run, i)), run |-> << >>]
        ELSE [chunks |-> st.chunks,
              current_chunk_text |-> text, current_chunk_start_time |-> start,
              runs |-> st.runs, run |-> Append(st.run, i)]

\* the loop body storing the buffer without .strip()
fold_segment_no_strip(st, segments, i, max_chunk_size) ==
    LET segment == segments[i]
        start == IF st.current_chunk_text = "" THEN segment.start
                 ELSE st.current_chunk_start_time
        text == st.current_chunk_text \o segment.text \o " "
        chunk == [text |-> text, start_time |-> start, end_time |-> segment.end]
    IN  IF Len(text) >= max_chunk_size \/ i = Len(segments)
        THEN [chunks |-> Append(st.chunks, chunk),
              current_chunk_text |-> "", current_chunk_start_time |-> start,
              runs |-> Append(st.runs, Append(st.run, i)), run |-> << >>]
        ELSE [chunks |-> st.chunks,
              current_chunk_text |-> text, current_chunk_start_time |-> start,
              runs |-> st.runs, run |-> Append(st.run, i)]

\* the loop body closing only when the buffer exceeds max_chunk_size
fold_segment_strict_threshold(st, segments, i, max_chunk_size) ==
    LET segment == segments[i]
        start == IF st.current_chunk_text = "" THEN segment.start
                 ELSE st.current_chunk_start_time
        text == st.current_chunk_text \o segment.text \o " "
        chunk == [text |-> Strip(text), start_time |-> start, end_time |-> segment.end]
    IN  IF Len(text) > max_chunk_size \/ i = Len(segments)
        THEN [chunks |-> Append(st.chunks, chunk),
              current_chunk_text |-> "", current_chunk_start_time |-> start,
              runs |-> Append(st.runs, Append(st.run, i)), run |-> << >>]
        ELSE [chunks |-> st.chunks,
              current_chunk_text |-> text, current_chunk_start_time |-> start,
              runs |-> st.runs, run |-> Append(st.run, i)]

\* the loop body inserting the closed chunk at the front of the list
fold_segment_prepends(st, segments, i, max_chunk_size) ==
    LET segment == segments[i]
        start == IF st.current_chunk_text = "" THEN segment.start
                 ELSE st.current_chunk_start_time
        text == st.current_chunk_text \o segment.text \o " "
        chunk == [text |-> Strip(text), start_time |-> start, end_time |-> segment.end]
    IN  IF Len(text) >= max_chunk_size \/ i = Len(segments)
        THEN [chunks |-> << chunk >> \o st.chunks,
              current_chunk_text |-> "", current_chunk_start_time |-> start,
              runs |-> Append(st.runs, Append(st.run, i)), run |-> << >>]
        ELSE [chunks |-> st.chunks,
              current_chunk_text |-> text, current_chunk_start_time |-> start,
              runs |-> st.runs, run |-> Append(st.run, i)]

\* one iteration of the for loop, on segments[i] (i counts from 1)
fold_segment(st, segments, i, max_chunk_size) ==
    LET segment == segments[i]
        start == IF st.current_chunk_text = "" THEN segment.start
                 ELSE st.current_chunk_start_time
        text == st.current_chunk_text \o segment.text \o " "
        chunk == [text |-> Strip(text), start_time |-> start, end_time |-> segment.end]
    IN  IF Len(text) >= max_chunk_size \/ i = Len(segments)
        THEN [chunks |-> Append(st.chunks, chunk),
              current_chunk_text |-> "", current_chunk_start_time |-> start,
              runs |-> Append(st.runs, Append(st.run, i)), run |-> << >>]
        ELSE [chunks |-> st.chunks,
              current_chunk_text |-> text, current_chunk_start_time |-> start,
              runs |-> st.runs, run |-> Append(st.run, i)]

\* the for loop from position i on
RECURSIVE chunk_loop(_, _, _, _)
chunk_loop(st, segments, i, max_chunk_size) ==
    IF i > Len(segments) THEN st
    ELSE chunk_loop(fold_segment(st, segments, i, max_chunk_size),
                    segments, i + 1, max_chunk_size)

create_chunks_from_segments(segments, max_chunk_size) ==
    chunk_loop(ChunkerStart, segments, 1, max_chunk_size).chunks

\* the positions of the segments folded into each chunk, in chunk order
folded_segments(segments, max_chunk_size) ==
    chunk_loop(ChunkerStart, segments, 1, max_chunk_size).runs

(***************************************************************************)
(* Embedding index: add_transcript_to_db and query_db over the ChromaDB     *)
(* collection "transcripts"                                                *)
(***************************************************************************)
\* number of source documents and largest n_results of a query
MaxSources == 2
MaxResults == 3

SourceIds == 1..MaxSources

\* create_chunks_from_segments' default max_chunk_size
DefaultMaxChunkSize == 1000

X10 == "0123456789"
X100 == X10 \o X10 \o X10 \o X10 \o X10 \o X10 \o X10 \o X10 \o X10 \o X10
\* a segment text long enough to fill a chunk by itself
LongText == X100 \o X100 \o X100 \o X100 \o X100 \o X100 \o X100 \o X100 \o X100 \o X100

\* transcription results: result.get('segments', [])
Transcripts ==
    {<< >>,
     << [start |-> 0, end |-> 2, text |-> "Hello "] >>,
     << [start |-> 0, end |-> 2, text |-> LongText],
        [start |-> 2, end |-> 5, text |-> "world."] >>,
     << [start |-> 0, end |-> 5, text |-> " a"] >>}

QueryTexts == {"", "Hello", LongText}

\* embedding_model.encode: a fixed function of the text; the text's length
\* stands for the vector and the difference of lengths for the distance
encode(text) == Len(text)
Distance(a, b) == IF a >= b THEN a - b ELSE b - a

\* f"{source_id}_{i}", i counting from 0
chunk_id(source_id, i) == ToString(source_id) \o "_" \o ToString(i)

\* the records add_transcript_to_db hands to collection.add
new_records(source_id, chunks) ==
    [k \in 1..Len(chunks) |->
       [id |-> chunk_id(source_id, k - 1),
        embedding |-> encode(chunks[k].text),
        document |-> chunks[k].text,
        metadata |-> [source_id |-> source_id, text |-> chunks[k].text,
                      start_time |-> chunks[k].start_time,
                      end_time |-> chunks[k].end_time]]]

StoredIds(coll) == {coll[i].id : i \in DOMAIN coll}

\* the records of recs whose id is not stored yet
RECURSIVE Unstored(_, _)
Unstored(coll, recs) ==
    IF recs = << >> THEN << >>
    ELSE (IF Head(recs).id \in StoredIds(coll) THEN << >> ELSE << Head(recs) >>)
         \o Unstored(coll, Tail(recs))

\* collection.add: ids already stored are never overwritten; depending on
\* the library version the call raises or skips those records
collection_add(coll, recs) ==
    IF \A k \in DOMAIN recs : recs[k].id \notin StoredIds(coll)
    THEN {[coll |-> coll \o recs, out |-> Ret(PyNone)]}
    ELSE {[coll |-> coll, out |-> Raise("DuplicateIDError", "Expected IDs to be unique")],
          [coll |-> coll \o Unstored(coll, recs), out |-> Ret(PyNone)]}

\* add_transcript_to_db without the "if not segments: return" guard: the
\* empty id list goes to collection.add, which refuses it
add_transcript_to_db_no_guard(coll, source_id, segments) ==
    IF segments = << >>
    THEN {[coll |-> coll,
           out |-> Raise("ValueError", "Expected IDs to be a non-empty list, got 0 IDs")]}
    ELSE collection_add(coll,
            new_records(source_id,
                        create_chunks_from_segments(segments, DefaultMaxChunkSize)))

\* the outcomes of add_transcript_to_db(source_id, result)
add_transcript_to_db(coll, source_id, segments) ==
    IF segments = << >> THEN {[coll |-> coll, out |-> Ret(PyNone)]}
    ELSE collection_add(coll,
            new_records(source_id,
                        create_chunks_from_segments(segments, DefaultMaxChunkSize)))

\* where={"source_id": source_id}
where_source_id(coll, source_id) ==
    SelectSeq(coll, LAMBDA r : r.metadata.source_id = source_id)

\* position of the record of recs nearest to the query embedding; the first
\* one among equals
NearestIndex(recs, q) ==
    CHOOSE i \in DOMAIN recs :
       \A j \in DOMAIN recs :
          \/ Distance(recs[i].embedding, q) < Distance(recs[j].embedding, q)
          \/ Distance(recs[i].embedding, q) = Distance(recs[j].embedding, q) /\ i <= j

\* the n nearest records, nearest first
RECURSIVE nearest(_, _, _)
nearest(recs, q, n) ==
    IF n = 0 \/ recs = << >> THEN << >>
    ELSE LET i == NearestIndex(recs, q) IN
         << recs[i] >>
           \o nearest(SubSeq(recs, 1, i - 1) \o SubSeq(recs, i + 1, Len(recs)), q, n - 1)

\* collection.query with one query embedding: results['metadatas'] holds one
\* list, the metadata of the nearest matching records
collection_query(coll, q, n_results, source_id) ==
    LET found == nearest(where_source_id(coll, source_id), q, n_results) IN
    [metadatas |-> << [k \in DOMAIN found |-> found[k].metadata] >>]

\* the query that returns every stored record's metadata, whatever the filter
query_db_unfiltered(coll, query_text, source_id, n_results) ==
    LET found == nearest(coll, encode(query_text), n_results) IN
    Ret([k \in DOMAIN found |-> found[k].metadata])

query_db(coll, query_text, source_id, n_results) ==
    LET results == collection_query(coll, encode(query_text), n_results, source_id) IN
    Ret(IF results.metadatas # << >> THEN results.metadatas[1] ELSE << >>)

(***************************************************************************)
(* State machine                                                           *)
(***************************************************************************)
Idle == [op |-> "idle"]

\* the worker threads of the server's thread pool that run the endpoints
MaxThreads == 2
Threads == 1..MaxThreads

\* a worker's position in generate_response -> _call_gemini and its locals;
\* wrote records that the worker stored its selection in the cache
IdleThread ==
    [pc |-> "idle", model_key |-> "", listing |-> NotCalled, model |-> "",
     wrote |-> FALSE, out |-> NotCalled]

Init ==
    /\ api_keys \in {[p \in CloudProviders |-> ""],
                     [p \in CloudProviders |-> CorruptCiphertext]}
    /\ cached_model = << >>
    /\ collection = << >>
    /\ threads = [t \in Threads |-> IdleThread]
    /\ last = Idle

\* GET /models/all
DiscoverAll ==
    /\ last = Idle
    /\ LET keys == _get_fresh_api_keys(api_keys) IN
       \E ro \in OllamaListResponses :
       \E rp \in OpenAIListResponses(keys["openai"]) \cup {NotCalled} :
       \E rg \in GoogleListResponses(keys["google"]) \cup {NotCalled} :
          LET co == OllamaListCalls[ro]
              cp == OpenAIListCalls[api_keys][rp]
              ca == AnthropicListCalls[api_keys]
              cg == GoogleListCalls[api_keys][rg]
              calls == [p \in Providers |->
                          CASE p = "ollama" -> co [] p = "openai" -> cp
                            [] p = "anthropic" -> ca [] p = "google" -> cg]
              r == get_all_available_models(calls)
          IN  /\ Drawn(rp, cp.ev, "openai", "list")
              /\ Drawn(rg, cg.ev, "google", "list")
              /\ last' = [op |-> "discover_all",
                          env |-> [ollama |-> ro, openai |-> rp, google |-> rg],
                          calls |-> calls, out |-> r.out,
                          ev |-> r.ev, queried |-> r.queried]
    /\ UNCHANGED <<api_keys, cached_model, collection, threads>>

\* GET /models/{provider}: the call of one adapter's list_models
ListModels ==
    /\ last = Idle
    /\ LET keys == _get_fresh_api_keys(api_keys) IN
       \E p \in Providers :
       \E resp \in (CASE p = "ollama" -> OllamaListResponses
                      [] p = "openai" -> OpenAIListResponses(keys["openai"])
                      [] p = "anthropic" -> {}
                      [] p = "google" -> GoogleListResponses(keys["google"]))
                   \cup {NotCalled} :
          LET call == CASE p = "ollama" -> get_ollama_models(resp)
                        [] p = "openai" -> get_openai_models(api_keys, resp)
                        [] p = "anthropic" -> get_anthropic_models(api_keys)
                        [] p = "google" -> get_google_models(api_keys, resp)
          IN  /\ Drawn(resp, call.ev, p, "list")
              /\ last' = [op |-> "list_models", provider |-> p, env |-> resp,
                          out |-> call.out, ev |-> call.ev]
    /\ UNCHANGED <<api_keys, cached_model, collection, threads>>

\* generate_response, as called by /summarize/, /query/, /report/, ...
Route ==
    /\ last = Idle
    /\ LET keys == _get_fresh_api_keys(api_keys) IN
       \E model_key \in RouteKeys, prompt \in Prompts, p \in Providers :
       \E gen \in ChatResponses(p, keys) \cup {NotCalled} :
       \E lst \in (IF p = "google" THEN GoogleListResponses(keys["google"]) ELSE {})
                  \cup {NotCalled} :
          LET env == [chat |-> [q \in Providers |-> IF q = p THEN gen ELSE NotCalled],
                      list |-> lst]
              r == generate_response(prompt, model_key, api_keys, cached_model, env)
          IN  /\ \A q \in Providers : Drawn(env.chat[q], r.ev, q, "generate")
              /\ Drawn(lst, r.ev, "google", "list")
              /\ gen = NotCalled => p = "ollama"
              /\ last' = [op |-> "route", model_key |-> model_key, prompt |-> prompt,
                          env |-> env, out |-> r.out, ev |-> r.ev,
                          cache_before |-> cached_model]
              /\ cached_model' = r.cache
    /\ UNCHANGED <<api_keys, collection, threads>>

\* the generation events of a connection test, in order
GenerateCalls(ev) == SelectSeq(ev, LAMBDA e : e[1] = "sdk" /\ e[3] = "generate")

\* POST /test-api/{provider}: test_api_connection
TestConnection ==
    /\ last = Idle
    /\ LET keys == _get_fresh_api_keys(api_keys) IN
       \E p \in Providers \cup {"unknown"} :
       \E lst \in (IF p = "google" THEN GoogleListResponses(keys["google"]) ELSE {})
                  \cup {NotCalled} :
       \E gen \in (IF p \in Providers THEN ChatResponses(p, keys) ELSE {}) \cup {NotCalled} :
       \E fb \in (IF p = "google" THEN GoogleChatResponses(keys["google"]) ELSE {})
                 \cup {NotCalled} :
          LET env == [chat |-> gen, list |-> lst, fallback |-> fb]
              r == IF p \notin Providers
                   THEN [ev |-> << >>, suitable |-> << >>, used |-> << >>,
                         out |-> Ret([success |-> FALSE,
                                      message |-> "Invalid provider. Must be one of: "
                                                    \o "ollama, openai, anthropic, google",
                                      provider |-> p])]
                   ELSE test_api_connection(p, api_keys, env)
              calls == GenerateCalls(r.ev)
              fallback_called == /\ calls # << >>
                                 /\ (lst.kind = "raise" \/ Len(calls) = 2)
          IN  /\ Drawn(lst, r.ev, "google", "list")
              /\ (fb # NotCalled) <=> (p = "google" /\ fallback_called)
              /\ (gen # NotCalled) <=>
                    (calls # << >> /\ ~(p = "google" /\ lst.kind = "raise"))
              /\ last' = [op |-> "test_connection", provider |-> p, env |-> env,
                          out |-> r.out, ev |-> r.ev,
                          suitable |-> r.suitable, used |-> r.used]
    /\ UNCHANGED <<api_keys, cached_model, collection, threads>>

\* PUT /config/: every provider's key is re-encrypted and saved
update_config ==
    /\ last = Idle
    /\ \E new \in [CloudProviders -> Plaintexts] :
          api_keys' = [p \in CloudProviders |-> encrypt_key(new[p])]
    /\ UNCHANGED <<cached_model, collection, last, threads>>

\* the HTTP layer sends the response; the worker takes the next request
Respond ==
    /\ last # Idle
    /\ last' = Idle
    /\ UNCHANGED <<api_keys, cached_model, collection, threads>>

Next == DiscoverAll \/ ListModels \/ Route \/ update_config \/ Respond

Spec == Init /\ [][Next]_vars

\* the discovery endpoints alone
DiscoveryNext == DiscoverAll \/ ListModels \/ update_config \/ Respond

DiscoverySpec == Init /\ [][DiscoveryNext]_vars

\* listing, generation and connection tests of the providers
ServiceNext == ListModels \/ Route \/ TestConnection \/ update_config \/ Respond

ServiceSpec == Init /\ [][ServiceNext]_vars

\* the chunking step of add_transcript_to_db, on any segment sequence
Chunk ==
    /\ last = Idle
    /\ \E n \in 0..MaxSegments :
       \E segments \in [1..n -> Segments], max_chunk_size \in MaxChunkSizes :
          last' = [op |-> "chunk", segments |-> segments,
                   max_chunk_size |-> max_chunk_size,
                   out |-> create_chunks_from_segments(segments, max_chunk_size),
                   folded |-> folded_segments(segments, max_chunk_size)]
    /\ UNCHANGED <<api_keys, cached_model, collection, threads>>

ChunkerNext == Chunk \/ Respond

ChunkerSpec == Init /\ [][ChunkerNext]_vars

\* the upload pipeline stores a transcription result in the index
AddTranscript ==
    /\ last = Idle
    /\ \E source_id \in SourceIds, segments \in Transcripts :
       \E r \in add_transcript_to_db(collection, source_id, segments) :
          /\ collection' = r.coll
          /\ last' = [op |-> "add", source_id |-> source_id, segments |-> segments,
                      out |-> r.out]
    /\ UNCHANGED <<api_keys, cached_model, threads>>

\* POST /query/: the retrieval step
Query ==
    /\ last = Idle
    /\ \E query_text \in QueryTexts, source_id \in SourceIds, n_results \in 1..MaxResults :
          last' = [op |-> "query", query_text |-> query_text, source_id |-> source_id,
                   n_results |-> n_results,
                   out |-> query_db(collection, query_text, source_id, n_results)]
    /\ UNCHANGED <<api_keys, cached_model, collection, threads>>

IndexNext == AddTranscript \/ Query \/ Respond

IndexSpec == Init /\ [][IndexNext]_vars

\* load_config on config.json as an earlier run or an earlier version of the
\* program left it; api_keys is what the file holds afterwards
LoadConfig ==
    /\ last = Idle
    /\ \E file \in ConfigFiles :
          LET r == load_config(file) IN
          /\ last' = [op |-> "load_config", file |-> file, out |-> r.out, saved |-> r.file]
          /\ api_keys' = IF r.file = InvalidJson THEN api_keys ELSE r.file.api_keys
    /\ UNCHANGED <<cached_model, collection, threads>>

ConfigNext == LoadConfig \/ Respond

ConfigSpec == Init /\ [][ConfigNext]_vars

\* a worker takes a generation request for a Gemini key: the registry
\* lookup, the dispatch on the prefix and _call_gemini up to the client
\* setup, which raises when no key is stored
StartGemini(t) ==
    /\ threads[t].pc = "idle"
    /\ \E model_key \in GeminiRequestKeys :
          threads' = [threads EXCEPT ![t] =
             IF _get_fresh_api_keys(api_keys)["google"] = ""
             THEN [@ EXCEPT !.pc = "done", !.model_key = model_key,
                            !.out = inline_error(model_key,
                                       Raise("ValueError",
                                             "Google Gemini API key is not configured."))]
             ELSE [@ EXCEPT !.pc = "check", !.model_key = model_key]]
    /\ UNCHANGED <<api_keys, cached_model, collection, last>>

\* a hasattr test that never finds the attribute
has_cached_model_never(cache) == FALSE

\* hasattr(_get_working_gemini_model, '_cached_model')
has_cached_model(cache) == cache # << >>

\* _get_working_gemini_model: the hasattr test and the cached return
CheckCache(t) ==
    /\ threads[t].pc = "check"
    /\ threads' = [threads EXCEPT ![t] =
          IF has_cached_model(cached_model)
          THEN [@ EXCEPT !.pc = "generate", !.model = cached_model[1]]
          ELSE [@ EXCEPT !.pc = "discover"]]
    /\ UNCHANGED <<api_keys, cached_model, collection, last>>

\* _get_working_gemini_model: genai.list_models() answers, the two loops
\* select a model and the selection is stored in the function attribute
Discover(t) ==
    /\ threads[t].pc = "discover"
    /\ \E resp \in GoogleListResponses(_get_fresh_api_keys(api_keys)["google"]) :
          LET working == _get_working_gemini_model(<< >>, resp) IN
          /\ threads' = [threads EXCEPT ![t] =
                [@ EXCEPT !.pc = "generate", !.listing = resp,
                          !.model = working.model, !.wrote = working.cache # << >>]]
          /\ cached_model' = IF working.cache # << >> THEN working.cache
                             ELSE cached_model
    /\ UNCHANGED <<api_keys, collection, last>>

\* _call_gemini: generate_content answers; generate_response returns the
\* text or the inline error
Generate(t) ==
    /\ threads[t].pc = "generate"
    /\ \E resp \in GoogleChatResponses(_get_fresh_api_keys(api_keys)["google"]) :
          threads' = [threads EXCEPT ![t] =
             [@ EXCEPT !.pc = "done", !.listing = NotCalled,
                       !.out = IF resp.kind = "raise"
                               THEN inline_error(threads[t].model_key, resp)
                               ELSE Ret(resp.data)]]
    /\ UNCHANGED <<api_keys, cached_model, collection, last>>

\* the state after the user saved a Google key on the settings page
ConfiguredInit ==
    /\ api_keys \in {[p \in CloudProviders |->
                        IF p = "google" THEN encrypt_key(k) ELSE ""] :
                     k \in {GoodKey, BadKey}}
    /\ cached_model = << >>
    /\ collection = << >>
    /\ last = Idle
    /\ threads = [t \in Threads |-> IdleThread]

ConcurrentNext ==
    \E t \in Threads : StartGemini(t) \/ CheckCache(t) \/ Discover(t) \/ Generate(t)

\* generation requests for Gemini keys served by concurrent workers
ConcurrentSpec == ConfiguredInit /\ [][ConcurrentNext]_vars

\* the generation endpoints alone
RouterNext == Route \/ update_config \/ Respond

RouterSpec == Init /\ [][RouterNext]_vars

(***************************************************************************)
(* Vocabulary of the properties                                            *)
(***************************************************************************)
IsDiscover == last.op = "discover_all"
IsList == last.op = "list_models"
IsRoute == last.op = "route"

\* the credentials in force during the request that last describes
KeysNow == _get_fresh_api_keys(api_keys)

\* the providers that have an entry in a provider_errors value
ErrorKeys(pe) == IF pe = PyNone THEN {} ELSE DOMAIN pe.items

Failed(p) == last.calls[p].out.kind = "raise"
Healthy(p) == last.calls[p].out.kind = "return"

IsSequence(x) == DOMAIN x = 1..Len(x)

RECURSIVE ConcatHealthy(_)
ConcatHealthy(i) ==
    IF i > Len(ProviderOrder) THEN << >>
    ELSE (IF Healthy(ProviderOrder[i]) THEN last.calls[ProviderOrder[i]].out.value
          ELSE << >>)
         \o ConcatHealthy(i + 1)

SdkEvents(ev) == {i \in DOMAIN ev : ev[i][1] = "sdk"}
LoadEvents(ev) == {i \in DOMAIN ev : ev[i][1] = "load_keys"}
AdapterEvents(ev) == {i \in DOMAIN ev : ev[i][1] = "adapter"}
GenerateEvents(ev) == {i \in SdkEvents(ev) : ev[i][3] = "generate"}

(***************************************************************************)
(* Discovery Aggregator                                                    *)
(***************************************************************************)

\* C1: get_all_available_models never raises: whatever the four adapters do
\* (descriptors, ValueError, any other exception), the call returns a record
\* with a models sequence and a provider_errors value (a dict or None).
C1_DiscoverNeverRaises ==
    IsDiscover =>
       /\ last.out.kind = "return"
       /\ DOMAIN last.out.value = {"models", "provider_errors"}
       /\ IsSequence(last.out.value.models)
       /\ last.out.value.provider_errors.tag \in {"None", "dict"}

\* C1 happens: one adapter returned descriptors, one raised ValueError and one
\* raised an exception that is not a ValueError
C1_Witness ==
    /\ IsDiscover
    /\ \E p \in Providers : Failed(p) /\ ~IsValueError(last.calls[p].out)
    /\ \E p \in Providers : Failed(p) /\ IsValueError(last.calls[p].out)
    /\ \E p \in Providers : Healthy(p) /\ last.calls[p].out.value # << >>
    /\ last.out.kind = "return"

\* C2: failure isolation: every adapter is queried exactly once, in the fixed
\* order, whatever the adapters before it did, and every descriptor of an
\* adapter that succeeded is in the returned models.
C2_FailureIsolation ==
    IsDiscover =>
       /\ last.queried = ProviderOrder
       /\ last.out.kind = "return" =>
            \A p \in Providers :
               Healthy(p) =>
                  \A i \in DOMAIN last.calls[p].out.value :
                     \E j \in DOMAIN last.out.value.models :
                        last.out.value.models[j] = last.calls[p].out.value[i]

\* C2 happens: the first adapter fails, a later one fails too, and the last
\* adapter's descriptors are still returned
C2_Witness ==
    /\ IsDiscover
    /\ Failed("ollama") /\ Failed("openai")
    /\ Healthy("google") /\ last.calls["google"].out.value # << >>
    /\ last.queried = ProviderOrder
    /\ \E j \in DOMAIN last.out.value.models :
          last.out.value.models[j] = last.calls["google"].out.value[1]

\* C3: models is exactly the concatenation, in the order Ollama, OpenAI,
\* Anthropic, Google, of the descriptor lists of the adapters that did not
\* fail, and provider_errors has an entry exactly for the adapters that
\* failed; with one healthy adapter and three failing ones, models is that
\* adapter's list and provider_errors has three entries.
C3_ExactMerge ==
    IsDiscover =>
       /\ last.out.kind = "return"
       /\ last.out.value.models = ConcatHealthy(1)
       /\ ErrorKeys(last.out.value.provider_errors) = {p \in Providers : Failed(p)}
       /\ \A h \in Providers :
             (Healthy(h) /\ \A p \in Providers \ {h} : Failed(p)) =>
                /\ last.out.value.models = last.calls[h].out.value
                /\ Cardinality(ErrorKeys(last.out.value.provider_errors)) = 3

\* C3 happens: exactly one adapter is healthy and returns descriptors, the
\* three others fail
C3_Witness ==
    /\ IsDiscover
    /\ \E h \in Providers :
          /\ Healthy(h) /\ last.calls[h].out.value # << >>
          /\ \A p \in Providers \ {h} : Failed(p)
          /\ last.out.value.models = last.calls[h].out.value
    /\ Cardinality(ErrorKeys(last.out.value.provider_errors)) = 3

\* a connection-level failure of a provider's service
Unreachable(resp) ==
    /\ resp.kind = "raise"
    /\ resp.cls \in {"ConnectionError", "ConnectError", "APIConnectionError",
                     "ServiceUnavailable"}

\* the cloud providers whose discovery contacts a service
ListedProviders == {"openai", "google"}

Unconfigured(p) == KeysNow[p] = ""

\* C4 as stated: with the local service down and every cloud provider
\* unconfigured or unreachable, discover_all returns no models and four
\* provider_errors entries.
C4_Original ==
    (/\ IsDiscover
     /\ Unreachable(last.env.ollama)
     /\ \A p \in CloudProviders :
           Unconfigured(p) \/ (p \in ListedProviders /\ Unreachable(last.env[p])))
    => /\ last.out.kind = "return"
       /\ last.out.value.models = << >>
       /\ Cardinality(ErrorKeys(last.out.value.provider_errors)) = 4

\* C4 (amended): with the local service down and OpenAI and Google each
\* unconfigured or unreachable, discover_all does not raise; provider_errors
\* has an entry for the local provider and for each of OpenAI and Google that
\* is configured but unreachable, and none for a provider whose credential is
\* absent or for Anthropic; models is empty, or the static Anthropic list
\* when an Anthropic credential is present.
C4_AllUnavailable ==
    (/\ IsDiscover
     /\ Unreachable(last.env.ollama)
     /\ \A p \in ListedProviders : Unconfigured(p) \/ Unreachable(last.env[p]))
    => /\ last.out.kind = "return"
       /\ last.out.value.models =
             (IF Unconfigured("anthropic") THEN << >> ELSE anthropic_models)
       /\ ErrorKeys(last.out.value.provider_errors) =
             {"ollama"} \cup {p \in ListedProviders : ~Unconfigured(p)}

\* C4 happens: the local service is down, OpenAI is configured but
\* unreachable, Google and Anthropic are unconfigured
C4_Witness ==
    /\ IsDiscover
    /\ Unreachable(last.env.ollama)
    /\ ~Unconfigured("openai") /\ Unreachable(last.env.openai)
    /\ Unconfigured("google") /\ Unconfigured("anthropic")
    /\ last.out.kind = "return"
    /\ last.out.value.models = << >>
    /\ ErrorKeys(last.out.value.provider_errors) = {"ollama", "openai"}

\* C5 as stated: a provider without a provider_errors entry is configured
\* and answered during the call.
C5_Original ==
    IsDiscover =>
       \A p \in Providers :
          p \notin ErrorKeys(last.out.value.provider_errors) =>
             /\ p \in CloudProviders => ~Unconfigured(p)
             /\ p \in {"ollama"} \cup ListedProviders => last.env[p].kind = "ok"

\* C5 (amended): a provider without a provider_errors entry is one whose
\* list_models did not fail: the local service answered; OpenAI or Google
\* either has no credential and was not contacted, or has one and answered
\* the listing request; the Anthropic provider was not contacted at all.
C5_NoEntryMeansNoFailure ==
    IsDiscover =>
       \A p \in Providers :
          p \notin ErrorKeys(last.out.value.provider_errors) =>
             /\ p = "ollama" => last.env[p].kind = "ok"
             /\ p \in ListedProviders =>
                   \/ Unconfigured(p) /\ ~HasSdk(last.ev, p, "list")
                   \/ ~Unconfigured(p) /\ last.env[p].kind = "ok"
             /\ p = "anthropic" =>
                   \A i \in SdkEvents(last.ev) : last.ev[i][2] # "anthropic"

\* C5 happens: one provider has no entry because it was skipped, one because
\* it answered, and one has an entry
C5_Witness ==
    /\ IsDiscover
    /\ Unconfigured("openai")
    /\ ~Unconfigured("google") /\ last.env.google.kind = "ok"
    /\ ErrorKeys(last.out.value.provider_errors) = {"ollama"}

\* C10: list_models of a cloud adapter whose credential is absent returns the
\* empty sequence, raises nothing and makes no SDK call; the same holds for
\* the adapters called by discover_all.
C10_AbsentCredentialSkips ==
    /\ (IsList /\ last.provider \in CloudProviders /\ Unconfigured(last.provider)) =>
          /\ last.out = Ret(<< >>)
          /\ SdkEvents(last.ev) = {}
    /\ IsDiscover =>
          \A p \in CloudProviders :
             Unconfigured(p) =>
                /\ last.calls[p].out = Ret(<< >>)
                /\ \A i \in SdkEvents(last.ev) : last.ev[i][2] # p

\* C10 happens: a cloud adapter has been asked for its models while its
\* stored credential was empty or did not decrypt
C10_Witness ==
    /\ IsList
    /\ last.provider \in CloudProviders
    /\ api_keys[last.provider] \in {"", CorruptCiphertext}
    /\ last.out = Ret(<< >>)
    /\ last.ev = << EvLoadKeys >>

(***************************************************************************)
(* Router                                                                  *)
(***************************************************************************)
InRegistry == last.model_key \in DOMAIN SUPPORTED_MODELS

\* the selected adapter failed: its SDK call raised, or it was called for a
\* cloud provider whose credential is absent
AdapterFailed ==
    \/ \E q \in Providers : last.env.chat[q].kind = "raise"
    \/ \E i \in AdapterEvents(last.ev) :
          last.ev[i][2] \in CloudProviders /\ Unconfigured(last.ev[i][2])

InlineErrorPrefix == "Error: Could not get a response from "

\* C6: generate_response with a registry key never raises; when the selected
\* adapter fails (credential missing or rejected, connectivity, model not
\* installed, anything else) the caller gets a string that starts with
\* "Error: Could not get a response from <model key>.", and otherwise the
\* generated text.
C6_RouteNeverRaises ==
    (IsRoute /\ InRegistry) =>
       /\ last.out.kind = "return"
       /\ AdapterFailed =>
             StartsWith(last.out.value, InlineErrorPrefix \o last.model_key \o ". ")
       /\ ~AdapterFailed => last.out.value = GeneratedText

\* C6 happens: the provider of a registry key is unreachable and the caller
\* gets the inline error string
C6_Witness ==
    /\ IsRoute
    /\ last.model_key = "openai_gpt4o"
    /\ Unreachable(last.env.chat["openai"])
    /\ last.out.kind = "return"
    /\ Contains(last.out.value, last.model_key)
    /\ StartsWith(last.out.value, InlineErrorPrefix)

\* C7: generate_response with a key that is not in the registry raises
\* ValueError "Model '<key>' is not supported." and has by then loaded no
\* credential, called no adapter and made no SDK call.
C7_UnknownKeyRaises ==
    (IsRoute /\ ~InRegistry) =>
       /\ last.out = Raise("ValueError", "Model '" \o last.model_key \o "' is not supported.")
       /\ last.ev = << >>
       /\ cached_model = last.cache_before

\* C7 happens: a key that discovery offers and the registry lacks is routed
\* while its provider's credential is stored
C7_Witness ==
    /\ IsRoute
    /\ last.model_key = "claude_3_5_haiku"
    /\ KeysNow["anthropic"] = GoodKey
    /\ last.out.kind = "raise"
    /\ LoadEvents(last.ev) = {}

\* the prefix that names each provider in a model key
KeyPrefix ==
    [p \in Providers |->
       CASE p = "ollama" -> "ollama" [] p = "openai" -> "openai"
         [] p = "anthropic" -> "claude" [] p = "google" -> "gemini"]

NamedProviders(model_key) == {p \in Providers : StartsWith(model_key, KeyPrefix[p])}

\* C8: for a registry key, one generate_response calls exactly one adapter,
\* the one named by the key's prefix, makes at most one generation request,
\* to that provider, and never reaches the "Unknown model provider." branch.
C8_OneAdapterOnce ==
    (IsRoute /\ InRegistry) =>
       /\ Cardinality(NamedProviders(last.model_key)) = 1
       /\ Cardinality(AdapterEvents(last.ev)) = 1
       /\ \A i \in AdapterEvents(last.ev) : last.ev[i][2] \in NamedProviders(last.model_key)
       /\ Cardinality(GenerateEvents(last.ev)) <= 1
       /\ \A i \in GenerateEvents(last.ev) : last.ev[i][2] \in NamedProviders(last.model_key)
       /\ last.out.kind = "return" => ~Contains(last.out.value, "Unknown model provider.")

\* C8 happens: the generation request of a claude key fails and is not
\* repeated
C8_Witness ==
    /\ IsRoute
    /\ last.model_key = "claude_3_opus"
    /\ last.env.chat["anthropic"].kind = "raise"
    /\ Cardinality(AdapterEvents(last.ev)) = 1
    /\ Cardinality(GenerateEvents(last.ev)) = 1
    /\ \A i \in GenerateEvents(last.ev) : last.ev[i][2] = "anthropic"

\* C9 as stated: the model of every generation request is the registry's
\* backend model identifier of the key.
C9_Original ==
    (IsRoute /\ InRegistry) =>
       \A i \in GenerateEvents(last.ev) : last.ev[i][4] = SUPPORTED_MODELS[last.model_key]

\* the generate-content-capable models of a listing
CapableListed(resp) ==
    IF resp.kind # "ok" THEN {}
    ELSE {RemoveAll(resp.data[i].name, "models/") :
             i \in {j \in DOMAIN resp.data :
                       GenerateContent \in resp.data[j].supported_generation_methods}}

\* C9 (amended): for an ollama, openai or claude key the model of the
\* generation request is the registry's backend model identifier; for a
\* gemini key the registry's identifier is not used: the request names the
\* cached preferred model, or with an empty cache a generate-content-capable
\* model of the live listing, or "gemini-pro" when the listing fails or has
\* none.
C9_BackendModel ==
    (IsRoute /\ InRegistry) =>
       \A i \in GenerateEvents(last.ev) :
          IF ~StartsWith(last.model_key, "gemini")
          THEN last.ev[i][4] = SUPPORTED_MODELS[last.model_key]
          ELSE IF last.cache_before # << >>
               THEN last.ev[i][4] = last.cache_before[1]
               ELSE IF CapableListed(last.env.list) # {}
                    THEN last.ev[i][4] \in CapableListed(last.env.list)
                    ELSE last.ev[i][4] = "gemini-pro"

\* C9 happens: a gemini key is routed to a discovered model that is not the
\* registry's, and an openai key to the registry's model
C9_Witness ==
    /\ IsRoute
    /\ last.model_key = "gemini_1_5_flash"
    /\ \E i \in GenerateEvents(last.ev) :
          /\ last.ev[i][4] = "gemini-1.5-pro-latest"
          /\ last.ev[i][4] # SUPPORTED_MODELS[last.model_key]

(***************************************************************************)
(* Adapter error messages                                                  *)
(***************************************************************************)
\* the provider's name in the adapters' messages
MessageName ==
    [p \in Providers |->
       CASE p = "ollama" -> "Ollama" [] p = "openai" -> "OpenAI"
         [] p = "anthropic" -> "Anthropic" [] p = "google" -> "Google Gemini"]

\* the two messages an adapter has for a credential the provider refuses
RejectedKeyMessages(p) ==
    {MessageName[p] \o " API key is invalid. Please check your key in Settings.",
     MessageName[p] \o " API key lacks required permissions. Please check your key in Settings."}

\* the listing request was refused because of the credential
RejectedListing(p) ==
    \/ p = "openai" /\ last.env \in OpenAIAuthErrors
    \/ p = "google" /\ last.env \in GoogleAuthErrors

\* C11 as stated: list_models of any cloud adapter whose credential is
\* present and rejected by the provider raises a typed error and returns no
\* descriptors.
C11_Original ==
    (/\ IsList
     /\ last.provider \in CloudProviders
     /\ KeysNow[last.provider] = BadKey
     /\ last.provider \in ListedProviders => RejectedListing(last.provider))
    => /\ last.out.kind = "raise"
       /\ IsValueError(last.out)

\* C11 (amended): list_models of the OpenAI or Google adapter whose listing
\* request is refused for its credential raises ValueError with one of the
\* adapter's two fixed credential messages and returns no descriptors; the
\* Anthropic adapter makes no request, so a present credential that the
\* provider would reject gives the static list of three descriptors and no
\* error.
C11_RejectedCredential ==
    (IsList /\ last.provider \in CloudProviders /\ KeysNow[last.provider] = BadKey) =>
       /\ (last.provider \in ListedProviders /\ RejectedListing(last.provider)) =>
             /\ last.out.kind = "raise"
             /\ IsValueError(last.out)
             /\ last.out.msg \in RejectedKeyMessages(last.provider)
       /\ last.provider = "anthropic" =>
             /\ last.out = Ret(anthropic_models)
             /\ SdkEvents(last.ev) = {}

\* C11 happens: the Google listing request is refused for the stored key and
\* the adapter raises its invalid-key message
C11_Witness ==
    /\ IsList
    /\ last.provider = "google"
    /\ KeysNow["google"] = BadKey
    /\ last.env \in GoogleAuthErrors
    /\ last.out = Raise("ValueError",
                        "Google Gemini API key is invalid. Please check your key in Settings.")

NotRunningMessage == "Ollama is not running. Please start Ollama to use local models."
NoModelsMessage == "No Ollama models installed. Install a model with: ollama pull llama3"

\* the local service answered the listing request with an empty model list
NoModelsInstalled(resp) == resp.kind = "ok" /\ resp.has_models_attr /\ resp.data = << >>

\* what the local adapter did with the listing response resp
LocalListing(resp, out) ==
    /\ NoModelsInstalled(resp) => out = Raise("ValueError", NoModelsMessage)
    /\ resp \in OllamaConnectErrors => out = Raise("ValueError", NotRunningMessage)
    /\ (out.kind = "raise" /\ out.msg = NotRunningMessage) => resp \in OllamaConnectErrors
    /\ (out.kind = "raise" /\ out.msg = NoModelsMessage) => NoModelsInstalled(resp)

DistinctNames(names) == \A i, j \in DOMAIN names : i # j => names[i] # names[j]

\* C13: in a discover_all result no two descriptors carry the same key,
\* whatever distinct backend model names the providers report.
C13_UniqueKeys ==
    (/\ IsDiscover
     /\ \A p \in {"ollama", "openai", "google"} :
           last.env[p].kind = "ok" => DistinctNames(last.env[p].data))
    => \A i, j \in DOMAIN last.out.value.models :
          i # j => last.out.value.models[i].key # last.out.value.models[j].key

(***************************************************************************)
(* Surfaced failure messages                                               *)
(***************************************************************************)
\* the exception the provider's SDK raised during the routed call, if any
RaisedChat == {last.env.chat[q] : q \in {r \in Providers : last.env.chat[r].kind = "raise"}}

\* C14: no provider_errors entry of discover_all and no inline error string
\* of route contains the raw text of the exception the provider's SDK raised.
C14_NoRawExceptionText ==
    /\ IsDiscover =>
          \A p \in ErrorKeys(last.out.value.provider_errors) :
             last.env[p].kind = "raise" =>
                ~Contains(last.out.value.provider_errors.items[p], last.env[p].msg)
    /\ (IsRoute /\ InRegistry) =>
          \A e \in RaisedChat : ~Contains(last.out.value, e.msg)

(***************************************************************************)
(* Chunker                                                                 *)
(***************************************************************************)
IsChunk == last.op = "chunk"

\* the texts of a sequence of segments or of chunks, one after the other
RECURSIVE JoinText(_)
JoinText(rs) == IF rs = << >> THEN "" ELSE Head(rs).text \o JoinText(Tail(rs))

\* a text without the spaces, which the chunker inserts and strips
Unspaced(s) == RemoveAll(s, " ")

NonDecreasingStart(segments) ==
    \A i \in 1..(Len(segments) - 1) : segments[i].start <= segments[i + 1].start

\* C15: for a non-empty segment sequence in non-decreasing start order and
\* any max_chunk_size, the chunks' start_time is non-decreasing and the chunk
\* texts read in output order are the segment texts in input order (spaces
\* apart): nothing reordered, repeated or lost.
C15_OrderPreserved ==
    (IsChunk /\ last.segments # << >> /\ NonDecreasingStart(last.segments)) =>
       /\ \A k \in 1..(Len(last.out) - 1) :
             last.out[k].start_time <= last.out[k + 1].start_time
       /\ Unspaced(JoinText(last.out)) = Unspaced(JoinText(last.segments))

\* C15 happens: three segments with text, in time order, give two chunks with
\* different texts and increasing start times
C15_Witness ==
    /\ IsChunk
    /\ Len(last.segments) = 3
    /\ NonDecreasingStart(last.segments)
    /\ \A i \in 1..3 : last.segments[i].text # ""
    /\ Len(last.out) = 2
    /\ last.out[1].start_time < last.out[2].start_time
    /\ last.out[1].text # last.out[2].text

\* the segments folded into chunk k, in order
RunSegments(k) == [j \in 1..Len(last.folded[k]) |-> last.segments[last.folded[k][j]]]

\* the texts of a sequence of segments, each followed by one space
RECURSIVE JoinSpaced(_)
JoinSpaced(rs) == IF rs = << >> THEN "" ELSE Head(rs).text \o " " \o JoinSpaced(Tail(rs))

HelloWorld ==
    << [start |-> 0, end |-> 2, text |-> "Hello "],
       [start |-> 2, end |-> 5, text |-> "world."] >>

IsHelloWorld == IsChunk /\ last.segments = HelloWorld /\ last.max_chunk_size = 100

\* C16 as stated: a chunk's text is exactly the concatenation of the texts
\* of the segments folded into it; "Hello " and "world." with
\* max_chunk_size 100 give one chunk "Hello world." from 0 to 5.
C16_Original ==
    /\ IsChunk =>
          \A k \in DOMAIN last.out : last.out[k].text = JoinText(RunSegments(k))
    /\ IsHelloWorld =>
          last.out = << [text |-> "Hello world.", start_time |-> 0, end_time |-> 5] >>

\* C16 (amended): a chunk's text is the concatenation of the texts of the
\* segments folded into it, each followed by one space, with leading and
\* trailing whitespace stripped; "Hello " and "world." with max_chunk_size
\* 100 give one chunk whose text is "Hello  world." (two spaces), from 0 to 5.
C16_SpacedAndStripped ==
    /\ IsChunk =>
          \A k \in DOMAIN last.out : last.out[k].text = Strip(JoinSpaced(RunSegments(k)))
    /\ IsHelloWorld =>
          last.out = << [text |-> "Hello  world.", start_time |-> 0, end_time |-> 5] >>

\* C16 happens: the two segments of the example have been chunked into one
\* chunk
C16_Witness ==
    /\ IsHelloWorld
    /\ Len(last.out) = 1
    /\ last.folded = << <<1, 2>> >>
    /\ last.out[1].text # JoinText(last.segments)

\* C17: every chunk's start_time is the start of the first segment folded
\* into it and its end_time the end of the last one, for every segment
\* sequence (in time order or not, with or without empty texts) and every
\* max_chunk_size.
C17_ChunkTimes ==
    IsChunk =>
       /\ Len(last.folded) = Len(last.out)
       /\ \A k \in DOMAIN last.out :
             /\ last.folded[k] # << >>
             /\ last.out[k].start_time = last.segments[Head(last.folded[k])].start
             /\ last.out[k].end_time
                   = last.segments[last.folded[k][Len(last.folded[k])]].end

\* C17 happens: a chunk opens with a segment whose text is empty and takes
\* its start_time from it and its end_time from a later segment
C17_Witness ==
    /\ IsChunk
    /\ \E k \in DOMAIN last.out :
          /\ Len(last.folded[k]) >= 2
          /\ last.segments[Head(last.folded[k])].text = ""
          /\ last.segments[last.folded[k][2]].start # last.segments[Head(last.folded[k])].start
          /\ last.out[k].start_time = last.segments[Head(last.folded[k])].start
          /\ last.out[k].end_time # last.segments[Head(last.folded[k])].end

\* the runs of segment positions, one after the other
RECURSIVE Flatten(_)
Flatten(runs) == IF runs = << >> THEN << >> ELSE Head(runs) \o Flatten(Tail(runs))

\* C18: every input segment is folded whole into exactly one chunk and
\* consecutive chunks hold consecutive runs of segments; so there are never
\* more chunks than segments, an empty input gives an empty output, and a
\* single segment, also one longer than max_chunk_size, gives exactly one
\* chunk holding that segment's whole text.
C18_WholeSegmentsCovered ==
    IsChunk =>
       /\ Flatten(last.folded) = [i \in 1..Len(last.segments) |-> i]
       /\ \A k \in DOMAIN last.out :
             Unspaced(last.out[k].text) = Unspaced(JoinText(RunSegments(k)))
       /\ Len(last.out) <= Len(last.segments)
       /\ last.segments = << >> => last.out = << >>
       /\ Len(last.segments) = 1 =>
             /\ Len(last.out) = 1
             /\ last.out[1].text = Strip(last.segments[1].text)

\* C18 happens: one segment longer than max_chunk_size gives one chunk with
\* the whole text
C18_Witness ==
    /\ IsChunk
    /\ Len(last.segments) = 1
    /\ Len(last.segments[1].text) > last.max_chunk_size
    /\ last.out = << [text |-> "world.", start_time |-> last.segments[1].start,
                      end_time |-> last.segments[1].end] >>

\* the buffer after the first j segments of chunk k: the texts, each
\* followed by the space the loop appends
BufferAfter(k, j) == JoinSpaced(SubSeq(RunSegments(k), 1, j))

\* C19 as stated: every chunk except the last carries a text of at least
\* max_chunk_size characters.
C19_Original ==
    IsChunk =>
       \A k \in 1..(Len(last.out) - 1) : Len(last.out[k].text) >= last.max_chunk_size

\* C19 (amended): the chunk is closed after a segment exactly when the
\* buffer, which holds the texts folded so far each followed by one space,
\* has reached max_chunk_size characters or the segment is the last of the
\* input; hence the buffer of every chunk except the last has at least
\* max_chunk_size characters, while the chunk's text, which is the stripped
\* buffer, is at least one character shorter and may be below max_chunk_size.
C19_ClosesAtThreshold ==
    IsChunk =>
       \A k \in DOMAIN last.out :
          LET n == Len(last.folded[k]) IN
          /\ \A j \in 1..(n - 1) : Len(BufferAfter(k, j)) < last.max_chunk_size
          /\ \/ Len(BufferAfter(k, n)) >= last.max_chunk_size
             \/ k = Len(last.out) /\ last.folded[k][n] = Len(last.segments)
          /\ k < Len(last.out) => Len(BufferAfter(k, n)) >= last.max_chunk_size
          /\ Len(last.out[k].text) < Len(BufferAfter(k, n))

\* C19 happens: a chunk that is not the last was closed by the space that
\* follows its text, so its text is shorter than max_chunk_size
C19_Witness ==
    /\ IsChunk
    /\ Len(last.out) >= 2
    /\ Len(BufferAfter(1, Len(last.folded[1]))) = last.max_chunk_size
    /\ Len(last.out[1].text) < last.max_chunk_size

(***************************************************************************)
(* Embedding index                                                         *)
(***************************************************************************)
IsAdd == last.op = "add"
IsQuery == last.op = "query"

\* the source ids that have records in the collection
IndexedSources == {collection[i].metadata.source_id : i \in DOMAIN collection}

\* C20: after any sequence of add calls, query_db(text, source_id = X, k)
\* returns only metadata whose source_id is X, for every X, text and k.
C20_QueryScopedToSource ==
    IsQuery =>
       /\ last.out.kind = "return"
       /\ \A k \in DOMAIN last.out.value :
             last.out.value[k].source_id = last.source_id

\* C20 happens: two documents are indexed, the query asks for more results
\* than its document has, and gets only that document's chunks although a
\* chunk of the other document is as near
C20_Witness ==
    /\ IsQuery
    /\ IndexedSources = SourceIds
    /\ last.out.value # << >>
    /\ Len(last.out.value) < last.n_results
    /\ \E i \in DOMAIN collection :
          /\ collection[i].metadata.source_id # last.source_id
          /\ Distance(collection[i].embedding, encode(last.query_text))
                <= Distance(encode(last.out.value[1].text), encode(last.query_text))

\* the records the last add handed to the collection
AddedRecords ==
    new_records(last.source_id,
                create_chunks_from_segments(last.segments, DefaultMaxChunkSize))

\* C21: add is an idempotent upsert by chunk id: an add for a source_id is
\* never rejected, afterwards the record stored at each id
\* "{source_id}_{sequence_index}" it wrote holds the content of this add,
\* and no id is stored twice.
C21_IdempotentUpsert ==
    (IsAdd /\ last.segments # << >>) =>
       /\ last.out.kind = "return"
       /\ \A k \in DOMAIN AddedRecords :
             \E i \in DOMAIN collection : collection[i] = AddedRecords[k]
       /\ \A i, j \in DOMAIN collection :
             i # j => collection[i].id # collection[j].id

\* C22: empty input is never an error for the index: an add for a
\* transcription without segments returns None and leaves the collection as
\* it was, and a query for a source_id without indexed chunks returns the
\* empty list.
C22_EmptyInputIsNoError ==
    /\ [](IsQuery /\ last.source_id \notin IndexedSources => last.out = Ret(<< >>))
    /\ [][(last'.op = "add" /\ last'.segments = << >>) =>
             (collection' = collection /\ last'.out = Ret(PyNone))]_vars

\* C22 happens: with another document indexed, an add without segments has
\* returned, and so can a query for a document that has no chunks
C22_Witness ==
    /\ collection # << >>
    /\ \/ IsAdd /\ last.segments = << >> /\ last.out = Ret(PyNone)
          /\ last.source_id \notin IndexedSources
       \/ IsQuery /\ last.source_id \notin IndexedSources /\ last.out = Ret(<< >>)

(***************************************************************************)
(* Preferred Gemini model                                                  *)
(***************************************************************************)
\* the Google listing response of the last list_models or discover_all
GoogleListing == IF IsDiscover THEN last.env.google ELSE last.env

\* the Google descriptors of the last list_models or discover_all
GoogleDescriptors ==
    IF IsDiscover
    THEN SelectSeq(last.out.value.models, LAMBDA d : d.provider = "google")
    ELSE last.out.value

\* the models the provider ever lists with the generate-content capability
CapableCatalog ==
    {RemoveAll(m.name, "models/") :
        m \in {c \in GeminiCatalog : GenerateContent \in c.supported_generation_methods}}

\* C23: every descriptor the Google adapter's list_models returns is a model
\* whose listing carries the generate-content capability, and so is every
\* model name stored in the preferred-model cache: a name written by a
\* generation request comes from the capable models of that request's
\* listing.
C23_OnlyCapableModels ==
    /\ ((IsDiscover \/ (IsList /\ last.provider = "google")) /\ last.out.kind = "return") =>
          \A k \in DOMAIN GoogleDescriptors :
             GoogleDescriptors[k].model_id \in CapableListed(GoogleListing)
    /\ cached_model # << >> => cached_model[1] \in CapableCatalog
    /\ (IsRoute /\ cached_model # last.cache_before) =>
          cached_model[1] \in CapableListed(last.env.list)

\* C23 happens: the listing starts with a preferred model that lacks the
\* capability and the cache is filled with another model
C23_Witness ==
    /\ IsRoute
    /\ last.cache_before = << >>
    /\ last.env.list.kind = "ok"
    /\ last.env.list.data # << >>
    /\ last.env.list.data[1].name = "models/gemini-1.0-pro"
    /\ cached_model # << >>
    /\ cached_model[1] # "gemini-1.0-pro"

\* the listed capable models that are on the preference list
PreferredListed(resp) == {m \in CapableListed(resp) : InPreferences(m)}

\* the member of a non-empty set of preferred models that comes first in
\* the preference order
MostPreferred(S) ==
    model_preferences[CHOOSE i \in DOMAIN model_preferences :
                         /\ model_preferences[i] \in S
                         /\ \A j \in 1..(i - 1) : model_preferences[j] \notin S]

\* C24: when the listing holds capable models of the preference list, the
\* model selected and cached by discovery is the one that comes first in the
\* preference order, in whatever order the provider lists its models.
C24_MostPreferredCached ==
    (/\ IsRoute
     /\ last.cache_before = << >>
     /\ PreferredListed(last.env.list) # {})
    => /\ cached_model = << MostPreferred(PreferredListed(last.env.list)) >>
       /\ \A i \in GenerateEvents(last.ev) :
             last.ev[i][4] = MostPreferred(PreferredListed(last.env.list))

\* worker t has chosen the model of its request
HasModel(t) == threads[t].pc \in {"generate", "done"}

C25_Original == [][cached_model # << >> => cached_model' = cached_model]_vars

\* C25 (amended): the cache is set by the first discovery that finds a
\* capable model and is never unset; a request that tests the cache after
\* it was set uses the cached model and makes no listing request; the value
\* changes afterwards only by the write of a request that had tested the
\* cache while it was empty (last write wins), so it is stable whenever no
\* such request is pending, and requests served one after the other write
\* it at most once.
C25_SetOnceReadMany ==
    /\ [][cached_model # << >> => cached_model' # << >>]_vars
    /\ [][\A t \in Threads :
            (threads[t].pc = "check" /\ threads'[t].pc # "check" /\ cached_model # << >>) =>
               /\ threads'[t].pc = "generate"
               /\ threads'[t].model = cached_model[1]
               /\ threads'[t].listing = NotCalled
               /\ cached_model' = cached_model]_vars
    /\ [][cached_model' # cached_model =>
            \E t \in Threads :
               /\ threads[t].pc = "discover"
               /\ CapableListed(threads'[t].listing) # {}
               /\ cached_model' = << threads'[t].model >>]_vars
    /\ [][(cached_model # << >> /\ \A t \in Threads : threads[t].pc # "discover") =>
            cached_model' = cached_model]_vars

\* C25 happens: one worker has stored its selection and a later request
\* found the cache set and is about to generate with the cached model,
\* without a listing of its own
C25_Witness ==
    /\ threads[1].pc = "done" /\ threads[1].wrote
    /\ threads[2].pc = "generate"
    /\ threads[2].listing = NotCalled
    /\ threads[2].model = threads[1].model
    /\ cached_model = << threads[1].model >>

(***************************************************************************)
(* Discovery against the Model Registry                                    *)
(***************************************************************************)
Range(seq) == {seq[i] : i \in DOMAIN seq}

\* the keys of the descriptors the four adapters build from their catalogs
OfferedKeys ==
    {d.key : d \in Range(format_ollama_models(OllamaCatalog))
                     \cup Range(format_openai_models(OpenAICatalog))
                     \cup Range(anthropic_models)
                     \cup UNION {Range(format_google_models(<< m >>)) : m \in GeminiCatalog}}

UnsupportedModel(out) ==
    out.kind = "raise" /\ out.cls = "ValueError" /\ Contains(out.msg, "is not supported")

\* C27: the key of every descriptor that list_models or discover_all returns
\* is in the Model Registry, and route called with a key that discovery
\* offers never fails with UnsupportedModel.
C27_OfferedKeysRoutable ==
    /\ (IsDiscover /\ last.out.kind = "return") =>
          \A i \in DOMAIN last.out.value.models :
             last.out.value.models[i].key \in DOMAIN SUPPORTED_MODELS
    /\ (IsList /\ last.out.kind = "return") =>
          \A i \in DOMAIN last.out.value :
             last.out.value[i].key \in DOMAIN SUPPORTED_MODELS
    /\ (IsRoute /\ last.model_key \in OfferedKeys) => ~UnsupportedModel(last.out)

(***************************************************************************)
(* Live credentials and discovery                                          *)
(***************************************************************************)
IsTest == last.op = "test_connection"

\* the provider a listing, generation or connection-test request is for
RequestProvider ==
    IF IsList \/ IsTest THEN last.provider
    ELSE IF IsRoute /\ InRegistry THEN provider_of_key(last.model_key)
    ELSE "none"

\* the plaintext of the credential that is stored now
StoredKey(p) == decrypt_key(api_keys[p])

\* a is what provider p's listing endpoint answers a client configured
\* with key k, or the call was not made
ListedFor(a, p, k) ==
    \/ a = NotCalled
    \/ p = "openai" /\ a \in OpenAIListResponses(k)
    \/ p = "google" /\ a \in GoogleListResponses(k)

\* the same for provider p's generation endpoint
GeneratedFor(a, p, k) ==
    a = NotCalled \/ a \in ChatResponses(p, [q \in CloudProviders |-> k])

\* the SDK calls of the request were answered as provider p answers key k
AnsweredFor(p, k) ==
    IF IsList THEN ListedFor(last.env, p, k)
    ELSE IF IsRoute
         THEN GeneratedFor(last.env.chat[p], p, k) /\ ListedFor(last.env.list, p, k)
         ELSE /\ GeneratedFor(last.env.chat, p, k)
              /\ GeneratedFor(last.env.fallback, p, k)
              /\ ListedFor(last.env.list, p, k)

\* the request read the stored credentials itself and acted on the value
\* that is stored now: without it no SDK call, with it the SDK calls were
\* answered as the provider answers that value
UsesStoredCredential ==
    LET p == RequestProvider IN
    p \in CloudProviders =>
       /\ \E i \in DOMAIN last.ev : last.ev[i] = EvLoadKeys
       /\ StoredKey(p) = "" => SdkEvents(last.ev) = {}
       /\ StoredKey(p) # "" =>
             /\ (IsList /\ p = "anthropic") \/ SdkEvents(last.ev) # {}
             /\ AnsweredFor(p, StoredKey(p))

\* list_models and test_connection ask the provider for its models in the
\* request itself
ListsInRequest ==
    LET p == RequestProvider IN
    /\ (IsList /\ p \in {"openai", "google"} /\ StoredKey(p) # "") =>
          HasSdk(last.ev, p, "list")
    /\ (IsTest /\ p = "google" /\ StoredKey(p) # "") => HasSdk(last.ev, p, "list")

GeminiGenerate == IsRoute /\ RequestProvider = "google" /\ StoredKey("google") # ""

\* C28 as stated: every list_models, generate and test_connection request of
\* a cloud provider uses the credential stored at that moment, and none
\* reuses a discovery result of an earlier request: each asks the provider
\* for its models itself.
C28_Original ==
    /\ UsesStoredCredential
    /\ ListsInRequest
    /\ GeminiGenerate => HasSdk(last.ev, "google", "list")

\* C28 (amended): every list_models, generate and test_connection request of
\* a cloud provider uses the credential stored at that moment; list_models
\* and test_connection ask the provider for its models in every request;
\* generate for the Google provider does so only while the preferred-model
\* cache is empty, and otherwise generates with the cached model, whatever
\* credential is stored now.
C28_LiveCredentials ==
    /\ UsesStoredCredential
    /\ ListsInRequest
    /\ GeminiGenerate =>
          /\ HasSdk(last.ev, "google", "list") <=> (last.cache_before = << >>)
          /\ last.cache_before # << >> =>
                \E i \in GenerateEvents(last.ev) : last.ev[i][4] = last.cache_before[1]

\* C28 happens: the Google credential was replaced by one the provider
\* rejects after a model had been cached; the next generation request read
\* the new credential, was rejected with it, and named the cached model
\* without listing
C28_Witness ==
    /\ GeminiGenerate
    /\ StoredKey("google") = BadKey
    /\ last.cache_before # << >>
    /\ last.env.chat["google"] \in GoogleAuthErrors
    /\ ~HasSdk(last.ev, "google", "list")
    /\ last.ev[Len(last.ev)] = EvGenerate("google", last.cache_before[1])

(***************************************************************************)
(* Connection test against generation                                      *)
(***************************************************************************)
\* the model _get_working_gemini_model selects from the listing the
\* connection test received
SelectedForGeneration == _get_working_gemini_model(<< >>, last.env.list).model

\* C29: for every listing genai.list_models returns and from which
\* test_gemini_connection selects a model, the model it selects, and reports
\* as working when its test succeeds, is the model
\* _get_working_gemini_model selects for generation from the same listing.
C29_SameModelAsTest ==
    (/\ IsTest /\ last.provider = "google"
     /\ last.env.list.kind = "ok" /\ last.suitable # << >>) =>
       /\ last.suitable = << SelectedForGeneration >>
       /\ last.out.value.success => last.used = << SelectedForGeneration >>

(***************************************************************************)
(* Migration of keys stored under the old hardcoded key                    *)
(***************************************************************************)
IsLoad == last.op = "load_config"

\* the providers whose key the loaded file holds encrypted with the old key
OldEncrypted ==
    {p \in CloudProviders : old_key_decrypt(last.file.api_keys[p]).kind = "return"}

\* C30: after load_config on a config file that carries no migration flag
\* and holds keys encrypted with the old hardcoded key, every such key is
\* still stored, in the returned config and in the saved file, and decrypts
\* to its original plaintext.
C30_OldKeysMigrated ==
    (/\ IsLoad /\ last.file.kind = "config"
     /\ ~last.file._migrated_to_machine_key /\ ~last.file._migrated_to_file_key) =>
       \A p \in OldEncrypted :
          /\ last.out.api_keys[p] # ""
          /\ decrypt_key(last.out.api_keys[p]) = old_key_decrypt(last.file.api_keys[p]).value
          /\ decrypt_key(last.saved.api_keys[p]) = old_key_decrypt(last.file.api_keys[p]).value

====
